---- MODULE Spec2Model ----
(***************************************************************************)
(* A model of the search pipeline of research_gap_finder.py: the           *)
(* SemanticScholarRateLimiter, the two source clients of                   *)
(* AcademicSearchEngine, search_all_sources and find_recent_papers.        *)
(*                                                                         *)
(* Time is counted in ticks of 0.1 s, so that every duration of the code   *)
(* (1.1 s, 1.5 s, 2^k s, 3600 s) is a whole number of ticks.               *)
(***************************************************************************)
EXTENDS Integers, Naturals, Sequences, FiniteSets, TLC

(***************************************************************************)
(* Bounds of the model.                                                    *)
(***************************************************************************)
NumThreads == 2
MaxCalls == 3
MaxRateLimit == 3
MaxTime == 8
MaxSearches == 2
MaxRequests == 5
MaxSeries == 23
MaxBackoffClock == 12
MaxTopicLen == 2
MaxFound == 9

Threads == 1..NumThreads
NoThread == 0

VARIABLES
    now,                \* time.time(), in ticks
    rate_limit,         \* SemanticScholarRateLimiter.rate_limit
    last_request_time,  \* SemanticScholarRateLimiter.last_request_time
    lock,               \* holder of SemanticScholarRateLimiter.lock, or NoThread
    pc,                 \* per thread: position inside wait_if_needed
    calls,              \* number of wait_if_needed calls begun so far
    loc,                \* per thread: the locals of the running call
    hist,               \* per thread: what the running call has observed; entry
                        \* and prev (the clock and last_request_time when the
                        \* call was made) are kept for a call that overlaps no other
    permits,            \* log: the successive values of last_request_time
                        \* under concurrent callers
    tenacity,           \* TENACITY_AVAILABLE
    cache,              \* AcademicSearchEngine.cache
    spc,                \* position of the running search_* call
    cur,                \* the running search_* call: arguments, loop variable,
                        \* run of the retry wrapper, what it has met so far
    events,             \* what the running call has done, in order
    result,             \* what the last search_* call returned
    began,              \* the clock and the cache entry when the call was made
    searches,           \* number of search_* calls made
    rested,             \* the caller has paused since the last call
    sent,               \* number of network requests made so far
    apc,                \* position inside find_recent_papers
    nq,                 \* find_recent_papers: len(search_queries)
    qi,                 \* find_recent_papers: number of queries searched
    all_papers,         \* search_all_sources: all_papers
    search_errors,      \* search_all_sources: search_errors
    asked,              \* the sources search_all_sources has called, in order
    from_ss,            \* what search_semantic_scholar returned to it
    from_cr,            \* what search_crossref returned to it
    sas_out,            \* what search_all_sources returned last
    frp_all,            \* find_recent_papers: all_papers
    seen_titles,        \* find_recent_papers: seen_titles
    out,                \* what find_recent_papers returned
    found,              \* history: some source call of this run returned a paper
    paused,             \* history: the sleeps of this find_recent_papers
    called,             \* the function called last on its own, "none" at the start
    args,               \* the arguments it was called with
    returned,           \* what it returned
    recent_papers,      \* ResearchGapAnalyzer.recent_papers
    paper_scores,       \* ResearchGapAnalyzer.paper_scores: paper_id -> score
    handler,            \* the handler that is running, "none" between messages
    todo,               \* the papers the handler's grading loop has yet to take
    graded_papers,      \* the handler's graded_papers: paper and score
    response,           \* what the last handler returned
    identified_gaps,    \* ResearchGapAnalyzer.identified_gaps
    user_expertise,     \* ResearchGapAnalyzer.user_expertise
    routed,             \* the last message one of the checks of lines 2355-2366
                        \* took, and its handler
    conversation_phase, \* ResearchGapAnalyzer.conversation_phase
    current_topic,      \* ResearchGapAnalyzer.current_topic
    searched            \* history: the last call of find_recent_papers made by
                        \* _handle_paper_search: the topic it was given, the
                        \* topic the message named, current_topic before

limVars == <<now, rate_limit, last_request_time, lock, pc, calls, loc, hist, permits>>
engVars == <<tenacity, cache, spc, cur, events, result, began, searches, rested, sent>>

aggVars == <<apc, nq, qi, all_papers, search_errors, asked, from_ss, from_cr,
             sas_out, frp_all, seen_titles, out, found, paused>>

fnVars == <<called, args, returned>>

msgVars == <<identified_gaps, user_expertise, routed>>

convVars == <<conversation_phase, current_topic, searched>>

anaVars == <<recent_papers, paper_scores, handler, todo, graded_papers, response,
             msgVars, convVars>>

vars == <<limVars, engVars, aggVars, fnVars, anaVars>>

(***************************************************************************)
(* SemanticScholarRateLimiter                                              *)
(***************************************************************************)

\* The default interval, 1.1 s.
SEMANTIC_SCHOLAR_RATE_LIMIT == 11

\* The clock when the limiter is built.  time.time() counts from the epoch:
\* it is no less than any interval.
Epoch == SEMANTIC_SCHOLAR_RATE_LIMIT

\* A limiter that starts from the clock of its construction.
InitialLastRequestTimeNow == Epoch

\* __init__: last_request_time = 0
InitialLastRequestTime == 0

\* A wait that is one tick short.
WaitTimeShort(current_time, last, rl) ==
    IF current_time - last < rl THEN rl - (current_time - last) - 1 ELSE 0

\* wait_time = self.rate_limit - time_since_last, taken when
\* time_since_last < self.rate_limit; 0 stands for "no sleep".
WaitTime(current_time, last, rl) ==
    IF current_time - last < rl THEN rl - (current_time - last) ELSE 0

\* time.sleep(d) returns no earlier than d after it was called.
SleepUntil(start, d) == start + d

\* A limiter whose critical section is not guarded.
LockIgnored == TRUE

\* "with self.lock": the lock can be taken only when nobody holds it.
LockIsFree == lock = NoThread

\* A lock that is never given back.
LockKept(t) == t

\* leaving the "with" block releases the lock.
LockAfterExit(t) == NoThread

NoLocals == [cb |-> FALSE, wait_time |-> 0, wake_at |-> 0]
NoHist == [entry |-> 0, prev |-> 0, slept |-> FALSE, notified |-> FALSE, solo |-> FALSE]

InCall(t) == pc[t] # "idle"

\* A caller enters wait_if_needed(status_callback); cb says whether a
\* status callback was passed.
Call(t) ==
    /\ pc[t] = "idle"
    /\ calls < MaxCalls
    /\ \E cb \in BOOLEAN :
         loc' = [loc EXCEPT ![t] = [NoLocals EXCEPT !.cb = cb]]
    /\ calls' = calls + 1
    /\ pc' = [pc EXCEPT ![t] = "lock"]
    /\ hist' = [u \in Threads |->
                 IF u = t
                 THEN IF \A v \in Threads \ {t} : ~InCall(v)
                      THEN [NoHist EXCEPT !.solo = TRUE, !.entry = now,
                                          !.prev = last_request_time]
                      ELSE NoHist
                 ELSE IF InCall(u)
                      THEN [hist[u] EXCEPT !.solo = FALSE, !.entry = 0, !.prev = 0]
                      ELSE hist[u]]
    /\ UNCHANGED <<now, rate_limit, last_request_time, lock, permits>>
    /\ UNCHANGED <<engVars, aggVars, fnVars, anaVars>>

\* line 1190: with self.lock
Acquire(t) ==
    /\ pc[t] = "lock"
    /\ LockIsFree
    /\ lock' = t
    /\ pc' = [pc EXCEPT ![t] = "read"]
    /\ UNCHANGED <<now, rate_limit, last_request_time, calls, loc, hist, permits>>
    /\ UNCHANGED <<engVars, aggVars, fnVars, anaVars>>

\* lines 1191-1198: read the clock, decide whether to wait, notify
ReadClock(t) ==
    /\ pc[t] = "read"
    /\ LET w == WaitTime(now, last_request_time, rate_limit) IN
         /\ loc' = [loc EXCEPT ![t].wait_time = w]
         /\ pc' = [pc EXCEPT ![t] = IF w > 0 THEN "sleep" ELSE "record"]
         /\ hist' = [hist EXCEPT ![t].notified = (w > 0 /\ loc[t].cb)]
    /\ UNCHANGED <<now, rate_limit, last_request_time, lock, calls, permits>>
    /\ UNCHANGED <<engVars, aggVars, fnVars, anaVars>>

\* line 1199: time.sleep(wait_time) is entered
Sleep(t) ==
    /\ pc[t] = "sleep"
    /\ loc' = [loc EXCEPT ![t].wake_at = SleepUntil(now, loc[t].wait_time),
                           ![t].wait_time = 0]
    /\ hist' = [hist EXCEPT ![t].slept = TRUE]
    /\ pc' = [pc EXCEPT ![t] = "sleeping"]
    /\ UNCHANGED <<now, rate_limit, last_request_time, lock, calls, permits>>
    /\ UNCHANGED <<engVars, aggVars, fnVars, anaVars>>

\* line 1199: time.sleep returns
Wake(t) ==
    /\ pc[t] = "sleeping"
    /\ now >= loc[t].wake_at
    /\ pc' = [pc EXCEPT ![t] = "record"]
    /\ UNCHANGED <<now, rate_limit, last_request_time, lock, calls, loc, hist, permits>>
    /\ UNCHANGED <<engVars, aggVars, fnVars, anaVars>>

\* line 1201: self.last_request_time = time.time()
Record(t) ==
    /\ pc[t] = "record"
    /\ last_request_time' = now
    /\ permits' = Append(permits, now)
    /\ pc' = [pc EXCEPT ![t] = "unlock"]
    /\ UNCHANGED <<now, rate_limit, lock, calls, loc, hist>>
    /\ UNCHANGED <<engVars, aggVars, fnVars, anaVars>>

\* the "with" block is left and wait_if_needed returns
Unlock(t) ==
    /\ pc[t] = "unlock"
    /\ lock' = LockAfterExit(t)
    /\ pc' = [pc EXCEPT ![t] = "idle"]
    /\ loc' = [loc EXCEPT ![t] = NoLocals]
    /\ hist' = [hist EXCEPT ![t] = NoHist]
    /\ UNCHANGED <<now, rate_limit, last_request_time, calls, permits>>
    /\ UNCHANGED <<engVars, aggVars, fnVars, anaVars>>

\* The clock advances.  It is stopped at MaxTime unless a sleeper still
\* waits for its wake-up time.
Tick ==
    /\ \/ now < Epoch + MaxTime
       \/ \E t \in Threads : pc[t] = "sleeping" /\ now < loc[t].wake_at
    /\ now' = now + 1
    /\ UNCHANGED <<rate_limit, last_request_time, lock, pc, calls, loc, hist, permits>>
    /\ UNCHANGED <<engVars, aggVars, fnVars, anaVars>>

(***************************************************************************)
(* The records a source can answer with                                    *)
(***************************************************************************)

\* datetime.now().year
CurrentYear == 2026

\* "Deep Learning for X: A Survey"
Title1 ==
        <<"D","e","e","p"," ","L","e","a","r","n","i","n","g"," ","f","o",
          "r"," ","X",":"," ","A"," ","S","u","r","v","e","y">>

\* "deep learning for x a survey!!"
Title2 ==
        <<"d","e","e","p"," ","l","e","a","r","n","i","n","g"," ","f","o",
          "r"," ","x"," ","a"," ","s","u","r","v","e","y","!",
          "!">>

\* "Deep Learning for Medical Imaging"
Title3 ==
        <<"D","e","e","p"," ","L","e","a","r","n","i","n","g"," ","f","o",
          "r"," ","M","e","d","i","c","a","l"," ","I","m","a","g",
          "i","n","g">>

\* "A Study of Deep Learning for Medical Imaging Applications"
Title4 ==
        <<"A"," ","S","t","u","d","y"," ","o","f"," ","D","e","e","p"," ",
          "L","e","a","r","n","i","n","g"," ","f","o","r"," ","M",
          "e","d","i","c","a","l"," ","I","m","a","g","i","n","g",
          " ","A","p","p","l","i","c","a","t","i","o","n","s">>

\* "Neural Nets"
Title5 ==
        <<"N","e","u","r","a","l"," ","N","e","t","s">>

\* "Neural Nets for Vision Tasks"
Title6 ==
        <<"N","e","u","r","a","l"," ","N","e","t","s"," ","f","o","r"," ",
          "V","i","s","i","o","n"," ","T","a","s","k","s">>

\* "DEEP LEARNING FOR X: A SURVEY"
Title7 ==
        <<"D","E","E","P"," ","L","E","A","R","N","I","N","G"," ","F","O",
          "R"," ","X",":"," ","A"," ","S","U","R","V","E","Y">>

\* "Untitled Record"
Title8 ==
        <<"U","n","t","i","t","l","e","d"," ","R","e","c","o","r","d">>

\* ""
Title9 ==
        <<>>

SampleRecords ==
    <<[title |-> Title1, year |-> CurrentYear - 1, authors |-> 2, citations |-> 15, malformed |-> FALSE],
      [title |-> Title2, year |-> CurrentYear - 2, authors |-> 1, citations |-> 80, malformed |-> FALSE],
      [title |-> Title3, year |-> CurrentYear - 3, authors |-> 3, citations |-> 255, malformed |-> FALSE],
      [title |-> Title4, year |-> CurrentYear - 4, authors |-> 4, citations |-> 0, malformed |-> FALSE],
      [title |-> Title5, year |-> CurrentYear, authors |-> 1, citations |-> 0, malformed |-> FALSE],
      [title |-> Title6, year |-> CurrentYear - 6, authors |-> 2, citations |-> 15, malformed |-> FALSE],
      [title |-> Title7, year |-> CurrentYear - 1, authors |-> 2, citations |-> 15, malformed |-> FALSE],
      [title |-> Title8, year |-> 0, authors |-> 1, citations |-> 0, malformed |-> FALSE],
      [title |-> Title9, year |-> 0, authors |-> 0, citations |-> 0, malformed |-> TRUE]>>

\* A series of further records, enough of them to fill more than one page of
\* results: "Series report a", "Series report b", ..., one to five years old,
\* with 0, 15, 80 or 255 citations.
SeriesMarks ==
    <<"a","b","c","d","e","f","g","h","i","j","k","l","m",
      "n","o","p","q","r","s","t","u","v","w","x","y","z">>
SeriesCitations == <<0, 15, 80, 255>>
SeriesRecords ==
    [k \in 1..MaxSeries |->
        [title |-> <<"S","e","r","i","e","s"," ","r","e","p","o","r","t"," ">>
                   \o <<SeriesMarks[k]>>,
         year |-> CurrentYear - 1 - (k % 5),
         authors |-> 1 + (k % 3),
         citations |-> SeriesCitations[1 + (k % 4)],
         malformed |-> FALSE]]

Catalogue == SampleRecords \o SeriesRecords

Items == 1..Len(Catalogue)

\* One tick is 0.1 s.
Seconds(n) == 10 * n

Min(a, b) == IF a < b THEN a ELSE b
Max(a, b) == IF a > b THEN a ELSE b

\* The Paper a source client builds from a record: the author list is cut to
\* its first 10 names (lines 1328 and 1424).
MakePaper(i) ==
    [title |-> Catalogue[i].title, year |-> Catalogue[i].year,
     authors |-> Min(Catalogue[i].authors, 10), citations |-> Catalogue[i].citations]

\* A validator that also rejects a paper with exactly 1000 citations a year.
TooManyCitationsInclusive(citations, paper_age) == citations >= paper_age * 1000

\* line 1173: paper.citations > paper_age * 1000
TooManyCitations(citations, paper_age) == citations > paper_age * 1000

\* PaperValidator.validate_paper
validate_paper(p) ==
    /\ 1900 <= p.year /\ p.year <= CurrentYear
    /\ ~(Len(p.title) < 10 \/ Len(p.title) > 300)
    /\ ~(p.authors = 0 \/ p.authors > 50)
    /\ ~TooManyCitations(p.citations, CurrentYear - p.year)

\* A loop that gives up the remaining records when one is skipped.
AbandonedAfterSkipped(rest) == <<>>

\* lines 1340-1342 and 1438-1440 (continue), and the validator's False: the
\* loop goes on with the records that follow.
AfterSkipped(rest) == rest

\* The loop over the records of a response: a record whose normalisation
\* raises, or that the validator rejects, is skipped.
RECURSIVE ValidPapers(_)
ValidPapers(items) ==
    IF items = <<>> THEN <<>>
    ELSE LET i == Head(items)
             rest == ValidPapers(Tail(items))
         IN  IF ~Catalogue[i].malformed /\ validate_paper(MakePaper(i))
             THEN <<i>> \o rest
             ELSE AfterSkipped(rest)

(***************************************************************************)
(* AcademicSearchEngine: search_semantic_scholar and search_crossref       *)
(***************************************************************************)

MAX_RETRIES == 3
RETRY_BACKOFF_BASE == 2
CACHE_DURATION == 3600
\* time.sleep(2) of search_crossref on a 429
CROSSREF_429_SLEEP == 2
\* retry(stop=stop_after_attempt(3), ...)
TENACITY_ATTEMPTS == 3

\* wait_exponential(multiplier=1, min=2, max=10) after the n-th failed run
TenacityWait(n) == Seconds(Max(2, Min(2 ^ (n - 1), 10)))

\* A backoff that grows by RETRY_BACKOFF_BASE seconds per attempt.
BackoffWaitLinear(attempt) == Seconds(RETRY_BACKOFF_BASE * attempt)

\* exponential_backoff_wait: RETRY_BACKOFF_BASE ** attempt seconds
BackoffWait(attempt) == Seconds(RETRY_BACKOFF_BASE ^ attempt)

Sources == {"ss", "cr"}
\* The (query, limit) pairs the searches are made with.
SearchArgs == {<<"q1", 20>>, <<"q2", 20>>, <<"q1", 5>>}
\* cache_key = f"ss_{query}_{limit}" / f"cr_{query}_{limit}"
CacheKey(src, q, lim) == <<src, q, lim>>
Keys == {CacheKey(src, a[1], a[2]) : src \in Sources, a \in SearchArgs}

\* What a request can end in: a 200 whose body holds a list of records, a
\* 200 whose JSON body is not an object holding a list, a 429, a timeout, a
\* requests exception (connection, HTTP status), any other exception (for
\* one, the ValueError of a body that is not JSON).
Outcomes == {"ok", "badshape", "429", "timeout", "reqerr", "other"}
Failures == {"429", "timeout", "reqerr", "other"}
\* The record lists of the 200 answers.
Responses == {<<>>, <<8, 9>>, <<1, 8, 9, 3>>, <<5>>}
\* How long the caller rests between two searches.
Rests == {Seconds(CACHE_DURATION) - 1, Seconds(CACHE_DURATION)}

NoEntry == [present |-> FALSE, time |-> 0, papers |-> <<>>]
Entry(t, papers) == [present |-> TRUE, time |-> t, papers |-> papers]

NoSearch ==
    [src |-> "ss", query |-> "q1", limit |-> 20, attempt |-> 0, run |-> 1,
     from_cache |-> FALSE, fetched |-> FALSE, last |-> "none", requests |-> 0,
     payload |-> <<>>]

Key == CacheKey(cur.src, cur.query, cur.limit)

\* A cache that still serves an entry that is exactly CACHE_DURATION old.
CacheFreshInclusive(k, t) ==
    cache[k].present /\ t - cache[k].time <= Seconds(CACHE_DURATION)

\* lines 1239-1241 and 1351-1353: an entry younger than CACHE_DURATION
CacheFresh(k, t) ==
    cache[k].present /\ t - cache[k].time < Seconds(CACHE_DURATION)

\* A cache that drops the entry it finds too old.
StaleEvicted(c, k, t) ==
    IF c[k].present /\ ~(t - c[k].time < Seconds(CACHE_DURATION))
    THEN [c EXCEPT ![k] = NoEntry] ELSE c

\* lines 1238-1243 and 1350-1355 read self.cache and write nothing to it
CacheAfterLookup(c, k, t) == c

\* A client that stores the empty list when its requests have failed.
EmptyStoredOnFailure(c, k, t) == [c EXCEPT ![k] = Entry(t, <<>>)]

\* lines 1283-1319 and 1446-1454: the returns of the failures write nothing
\* to self.cache
CacheAfterFailure(c, k, t) == c

\* The method body is entered by search c at time t: lines 1238-1243 (and
\* 1350-1355) return the cached list, or the body goes on to the request.
EnterBody(c, t) ==
    LET k == CacheKey(c.src, c.query, c.limit) IN
    /\ cache' = CacheAfterLookup(cache, k, t)
    /\ IF CacheFresh(k, t)
       THEN /\ spc' = "returned"
            /\ result' = cache[k].papers
            /\ cur' = [c EXCEPT !.from_cache = TRUE]
       ELSE /\ spc' = "attempt"
            /\ result' = <<>>
            /\ cur' = [c EXCEPT !.attempt = 0, !.requests = 0]

\* The caller calls search_semantic_scholar(q, lim) or search_crossref(q, lim).
Search(src, q, lim) ==
    /\ spc \in {"idle", "returned", "raised"}
    /\ searches < MaxSearches
    /\ searches' = searches + 1
    /\ rested' = FALSE
    /\ began' = [time |-> now, entry |-> cache[CacheKey(src, q, lim)], cache |-> cache]
    /\ events' = <<>>
    /\ EnterBody([NoSearch EXCEPT !.src = src, !.query = q, !.limit = lim], now)
    /\ UNCHANGED <<tenacity, now, sent>>
    /\ UNCHANGED <<rate_limit, last_request_time, lock, pc, calls, loc, hist, permits>>
    /\ UNCHANGED <<aggVars, fnVars, anaVars>>

\* A loop that goes to the limiter before its first request only.
LimiterCalledOnceOnly(attempt) == attempt = 0

\* line 1271: wait_if_needed is the first statement of every turn of the loop
LimiterCalled(attempt) == TRUE

\* What a turn of the loop does before its answer is looked at
AttemptEvents(attempt) ==
    IF LimiterCalled(attempt) THEN <<"acquire", "request">> ELSE <<"request">>

\* One turn of the loop of lines 1268-1319: wait_if_needed, the request,
\* and what the answer o leads to.  The clock is advanced by the sleeps
\* only: the time a request itself takes is not counted.
SSAttempt(o, payload) ==
    /\ spc = "attempt" /\ cur.src = "ss"
    /\ sent < MaxRequests
    /\ sent' = sent + 1
    /\ LET permit == IF LimiterCalled(cur.attempt)
                     THEN SleepUntil(now, WaitTime(now, last_request_time, rate_limit))
                     ELSE now
           done == permit
           c == [cur EXCEPT !.last = o, !.requests = @ + 1]
       IN  /\ last_request_time' = IF LimiterCalled(cur.attempt) THEN permit
                                   ELSE last_request_time
           /\ CASE o = "ok" ->
                    \* lines 1292-1294, 1321-1346
                    /\ now' = done
                    /\ cache' = [cache EXCEPT ![Key] = Entry(done, ValidPapers(payload))]
                    /\ result' = ValidPapers(payload)
                    /\ cur' = [c EXCEPT !.fetched = TRUE, !.payload = payload]
                    /\ events' = events \o AttemptEvents(cur.attempt)
                    /\ spc' = "returned"
                [] o = "badshape" ->
                    \* line 1323 raises outside the try
                    /\ now' = done
                    /\ cur' = c
                    /\ events' = events \o AttemptEvents(cur.attempt)
                    /\ spc' = "raising"
                    /\ UNCHANGED <<cache, result>>
                [] o \in Failures /\ cur.attempt < MAX_RETRIES - 1 ->
                    \* exponential_backoff_wait(attempt); continue
                    /\ now' = SleepUntil(done, BackoffWait(cur.attempt))
                    /\ cur' = [c EXCEPT !.attempt = @ + 1]
                    /\ events' = events \o AttemptEvents(cur.attempt) \o <<"backoff">>
                    /\ spc' = "attempt"
                    /\ UNCHANGED <<cache, result>>
                [] o \in Failures /\ ~(cur.attempt < MAX_RETRIES - 1) ->
                    \* return []
                    /\ now' = done
                    /\ cur' = c
                    /\ events' = events \o AttemptEvents(cur.attempt)
                    /\ result' = <<>>
                    /\ spc' = "returned"
                    /\ cache' = CacheAfterFailure(cache, Key, done)
    /\ UNCHANGED <<tenacity, began, searches, rested>>
    /\ UNCHANGED <<rate_limit, lock, pc, calls, loc, hist, permits>>
    /\ UNCHANGED <<aggVars, fnVars, anaVars>>

\* The body of search_crossref, lines 1371-1454: one request, no limiter.
CRRequest(o, payload) ==
    /\ spc = "attempt" /\ cur.src = "cr"
    /\ sent < MaxRequests
    /\ sent' = sent + 1
    /\ LET done == now
           c == [cur EXCEPT !.last = o, !.requests = @ + 1]
       IN  /\ CASE o = "ok" ->
                    \* lines 1384-1444
                    /\ now' = done
                    /\ cache' = [cache EXCEPT ![Key] = Entry(done, ValidPapers(payload))]
                    /\ result' = ValidPapers(payload)
                    /\ cur' = [c EXCEPT !.fetched = TRUE, !.payload = payload]
                    /\ events' = events \o <<"request">>
                [] o = "429" ->
                    \* lines 1379-1382, then the except of line 1452
                    /\ now' = SleepUntil(done, Seconds(CROSSREF_429_SLEEP))
                    /\ result' = <<>>
                    /\ cur' = c
                    /\ events' = events \o <<"request", "sleep">>
                    /\ cache' = CacheAfterFailure(cache, Key, now')
                [] OTHER ->
                    \* the excepts of lines 1446-1454
                    /\ now' = done
                    /\ result' = <<>>
                    /\ cur' = c
                    /\ events' = events \o <<"request">>
                    /\ cache' = CacheAfterFailure(cache, Key, done)
           /\ spc' = "returned"
    /\ UNCHANGED <<tenacity, began, searches, rested>>
    /\ UNCHANGED <<rate_limit, last_request_time, lock, pc, calls, loc, hist, permits>>
    /\ UNCHANGED <<aggVars, fnVars, anaVars>>

\* The exception leaves the method body and meets the retry wrapper of
\* lines 1225-1234: it waits and runs the body again.
TenacityRetry ==
    /\ spc = "raising"
    /\ tenacity /\ cur.run < TENACITY_ATTEMPTS
    /\ LET t == SleepUntil(now, TenacityWait(cur.run)) IN
         /\ now' = t
         /\ EnterBody([cur EXCEPT !.run = @ + 1], t)
    /\ UNCHANGED <<tenacity, events, began, searches, rested, sent>>
    /\ UNCHANGED <<rate_limit, last_request_time, lock, pc, calls, loc, hist, permits>>
    /\ UNCHANGED <<aggVars, fnVars, anaVars>>

\* The exception reaches the caller: there is no wrapper, or the wrapper has
\* used its runs.
Propagate ==
    /\ spc = "raising"
    /\ ~(tenacity /\ cur.run < TENACITY_ATTEMPTS)
    /\ spc' = "raised"
    /\ UNCHANGED <<tenacity, cache, cur, events, result, began, searches, rested, sent, now>>
    /\ UNCHANGED <<rate_limit, last_request_time, lock, pc, calls, loc, hist, permits>>
    /\ UNCHANGED <<aggVars, fnVars, anaVars>>

\* Time passes between two searches.  (A rest before the first search only
\* moves the clock of the construction.)
Rest(d) ==
    /\ spc \in {"idle", "returned", "raised"}
    /\ ~rested /\ searches > 0 /\ searches < MaxSearches
    /\ rested' = TRUE
    /\ now' = now + d
    /\ UNCHANGED <<tenacity, cache, spc, cur, events, result, began, searches, sent>>
    /\ UNCHANGED <<rate_limit, last_request_time, lock, pc, calls, loc, hist, permits>>
    /\ UNCHANGED <<aggVars, fnVars, anaVars>>

\* __init__, lines 1215-1234; TENACITY_AVAILABLE is what the import of
\* lines 47-52 found.
InitEngine ==
    /\ tenacity \in BOOLEAN
    /\ cache = [k \in Keys |-> NoEntry]
    /\ spc = "idle"
    /\ cur = NoSearch
    /\ events = <<>>
    /\ result = <<>>
    /\ began = [time |-> 0, entry |-> NoEntry, cache |-> [k \in Keys |-> NoEntry]]
    /\ searches = 0
    /\ rested = FALSE
    /\ sent = 0

EngineNext ==
    \/ \E src \in Sources, a \in SearchArgs : Search(src, a[1], a[2])
    \/ \E o \in Outcomes :
         \E payload \in (IF o = "ok" THEN Responses ELSE {<<>>}) :
            \/ SSAttempt(o, payload)
            \/ CRRequest(o, payload)
    \/ TenacityRetry
    \/ Propagate
    \/ \E d \in Rests : Rest(d)

(***************************************************************************)
(* Titles: str.lower, re.sub(r'[^\w\s]', '', ...), str.strip, "in"         *)
(***************************************************************************)

UpperCase ==
    <<"A","B","C","D","E","F","G","H","I","J","K","L","M",
      "N","O","P","Q","R","S","T","U","V","W","X","Y","Z">>
LowerCase ==
    <<"a","b","c","d","e","f","g","h","i","j","k","l","m",
      "n","o","p","q","r","s","t","u","v","w","x","y","z">>
Digits == {"0","1","2","3","4","5","6","7","8","9"}

\* str.lower, one character
LowerChar(c) ==
    IF \E i \in 1..26 : UpperCase[i] = c
    THEN LowerCase[CHOOSE i \in 1..26 : UpperCase[i] = c]
    ELSE c

\* str.lower
Lower(s) == [i \in 1..Len(s) |-> LowerChar(s[i])]

\* \w and \s of the regular expression
IsWordChar(c) ==
    \/ \E i \in 1..26 : UpperCase[i] = c \/ LowerCase[i] = c
    \/ c \in Digits
    \/ c = "_"
IsSpace(c) == c = " "
KeptByNormalisation(c) == IsWordChar(c) \/ IsSpace(c)

\* str.strip
RECURSIVE LStrip(_)
LStrip(s) == IF s # <<>> /\ IsSpace(Head(s)) THEN LStrip(Tail(s)) ELSE s
RECURSIVE RStrip(_)
RStrip(s) ==
    IF s # <<>> /\ IsSpace(s[Len(s)]) THEN RStrip(SubSeq(s, 1, Len(s) - 1)) ELSE s
Strip(s) == RStrip(LStrip(s))

\* a in b, for strings
Contains(b, a) ==
    \E k \in 0..(Len(b) - Len(a)) : SubSeq(b, k + 1, k + Len(a)) = a

\* line 1513: re.sub(r'[^\w\s]', '', paper.title.lower()).strip()
NormalizeTitle(title) == Strip(SelectSeq(Lower(title), KeptByNormalisation))

\* line 1655: paper.title.lower().strip()
TitleKey(title) == Strip(Lower(title))

\* The title of a Paper is the record's title, stripped (lines 1327, 1423).
PaperTitle == [i \in Items |-> Strip(Catalogue[i].title)]
Normalized == [i \in Items |-> NormalizeTitle(PaperTitle[i])]
Keyed == [i \in Items |-> TitleKey(PaperTitle[i])]

\* Titles that tell the two only by exact equality.
SameTitleOnly(n, s) == n = s

\* lines 1519-1526: the same normalized title, or one inside the other when
\* both are longer than 20 characters
IsDuplicateTitle(n, s) ==
    \/ n = s
    \/ /\ Len(n) > 20 /\ Len(s) > 20
       /\ (Contains(s, n) \/ Contains(n, s))

\* lines 1508-1530: papers are Papers (a record index and the source tag)
RECURSIVE Deduplicate(_, _, _)
Deduplicate(papers, seen, unique) ==
    IF papers = <<>> THEN unique
    ELSE LET p == Head(papers)
             n == Normalized[p.item]
         IN  IF \E s \in seen : IsDuplicateTitle(n, s)
             THEN Deduplicate(Tail(papers), seen, unique)
             ELSE Deduplicate(Tail(papers), seen \cup {n}, Append(unique, p))

\* (citations + 1) ** 0.25, rounded down, up to the 10 at which the citation
\* score is capped.  The citation counts of the catalogue make it exact.
FourthRoot(n) ==
    IF n >= 10000 THEN 10 ELSE CHOOSE k \in 0..9 : k ^ 4 <= n /\ n < (k + 1) ^ 4

\* A recency score that is not held at 0 for papers older than ten years.
RecencyUnclamped(age) == 10 - age

\* line 1536, in tenths: max(0, 1 - (current_year - paper.year) / 10)
Recency(age) == Max(0, 10 - age)

\* lines 1536-1542, in thousandths, for a paper of a given year and citations
Relevance(year, citations) ==
    40 * Recency(CurrentYear - year) + 60 * Min(10, FourthRoot(citations + 1))

\* lines 1536-1542, in thousandths:
\* 0.4 * max(0, 1 - age / 10) + 0.6 * min(1, (citations + 1) ** 0.25 / 10)
RelevanceScore(i) == Relevance(Catalogue[i].year, Catalogue[i].citations)

\* key=lambda p: p.relevance_score
ByRelevance(p, q) == RelevanceScore(p.item) > RelevanceScore(q.item)
\* key=lambda p: (p.year, p.citations)
ByYearThenCitations(p, q) ==
    \/ Catalogue[p.item].year > Catalogue[q.item].year
    \/ /\ Catalogue[p.item].year = Catalogue[q.item].year
       /\ Catalogue[p.item].citations > Catalogue[q.item].citations
\* p's key is strictly greater than q's, for the key named by order
Before(order, p, q) ==
    IF order = "relevance" THEN ByRelevance(p, q) ELSE ByYearThenCitations(p, q)

\* list.sort(key=..., reverse=True): descending, equal keys keep their order.
RECURSIVE InsertSorted(_, _, _)
InsertSorted(sorted, p, order) ==
    IF sorted = <<>> THEN <<p>>
    ELSE IF Before(order, p, Head(sorted))
         THEN <<p>> \o sorted
         ELSE <<Head(sorted)>> \o InsertSorted(Tail(sorted), p, order)
RECURSIVE SortDescending(_, _)
SortDescending(papers, order) ==
    IF papers = <<>> THEN <<>>
    ELSE InsertSorted(SortDescending(SubSeq(papers, 1, Len(papers) - 1), order),
                      papers[Len(papers)], order)

\* A slice that keeps the end of the list.
TakeLast(s, n) == SubSeq(s, Len(s) - Min(n, Len(s)) + 1, Len(s))

\* s[:n]
Take(s, n) == SubSeq(s, 1, Min(n, Len(s)))

MAX_PAPERS_PER_SOURCE == 20
\* recent_papers[:20]
RECENT_PAPERS_LIMIT == 20
\* search_queries[:3]
MAX_QUERIES_SEARCHED == 3
\* unique_queries[:4]
MAX_QUERIES_GENERATED == 4
\* p.year >= current_year - 5
RECENT_YEARS == 5

Tagged(items, src) == [k \in 1..Len(items) |-> [item |-> items[k], source |-> src]]

\* lines 1507-1550 of search_all_sources
RankedUnique(papers) ==
    Take(SortDescending(Deduplicate(papers, {}, <<>>), "relevance"), MAX_PAPERS_PER_SOURCE)

\* lines 1652-1659 of find_recent_papers: returns <<all_papers, seen_titles>>
RECURSIVE MergeNew(_, _, _)
MergeNew(papers, all, seen) ==
    IF papers = <<>> THEN <<all, seen>>
    ELSE LET p == Head(papers)
             key == Keyed[p.item]
         IN  IF key \notin seen
             THEN MergeNew(Tail(papers), Append(all, p), seen \cup {key})
             ELSE MergeNew(Tail(papers), all, seen)

\* A filter that lets papers of any year through.
AnyYear(p) == TRUE

\* line 1677: p.year >= current_year - 5
IsRecent(p) == Catalogue[p.item].year >= CurrentYear - RECENT_YEARS

\* lines 1675-1685 of find_recent_papers
RecentRanked(all) ==
    Take(SortDescending(SelectSeq(all, IsRecent), "recency"), RECENT_PAPERS_LIMIT)

(***************************************************************************)
(* search_all_sources and find_recent_papers                               *)
(***************************************************************************)

\* What one source call gives back to search_all_sources: a list of
\* validated Papers.  search_semantic_scholar can also raise (SSRaises).
SourceLists == {<<>>, <<1, 3>>, <<4, 7, 2>>, <<5, 6>>}

\* Two long answers, the first half and the second half of the series.
SeriesFirstHalf == [k \in 1..((MaxSeries + 1) \div 2) |-> Len(SampleRecords) + k]
SeriesSecondHalf ==
    [k \in 1..(MaxSeries \div 2) |-> Len(SampleRecords) + ((MaxSeries + 1) \div 2) + k]

\* A search_all_sources that drops what Crossref found when Semantic Scholar
\* failed.
CrossrefDroppedOnError(errors, crossref_papers) ==
    IF errors # <<>> THEN <<>> ELSE crossref_papers

\* lines 1489-1490: all_papers.extend(crossref_papers)
CrossrefContribution(errors, crossref_papers) == crossref_papers

\* find_recent_papers(topic) is called; n is the number of query variants
\* _generate_search_queries returned.  The loop of line 1644 takes its first
\* query and search_all_sources is entered.
FindRecentPapers(n) ==
    /\ apc \in {"idle", "done"}
    /\ nq' = n
    /\ qi' = 0
    /\ apc' = "ss"
    /\ frp_all' = <<>>
    /\ seen_titles' = {}
    /\ all_papers' = <<>>
    /\ search_errors' = <<>>
    /\ asked' = <<>>
    /\ from_ss' = <<>>
    /\ from_cr' = <<>>
    /\ sas_out' = <<>>
    /\ out' = <<>>
    /\ found' = FALSE
    /\ paused' = <<>>
    /\ UNCHANGED <<limVars, engVars, fnVars, anaVars>>

\* lines 1471-1477: search_semantic_scholar returns r
SSReturns(r) ==
    /\ apc = "ss"
    /\ asked' = Append(asked, "ss")
    /\ all_papers' = all_papers \o Tagged(r, "ss")
    /\ from_ss' = Tagged(r, "ss")
    /\ found' = (found \/ r # <<>>)
    /\ apc' = "cr"
    /\ UNCHANGED <<nq, qi, frp_all, seen_titles, search_errors, from_cr, sas_out,
                   out>>
    /\ UNCHANGED <<paused, limVars, engVars, fnVars, anaVars>>

\* lines 1478-1482: search_semantic_scholar raises; the error is recorded
SSRaises ==
    /\ apc = "ss"
    /\ asked' = Append(asked, "ss")
    /\ search_errors' = Append(search_errors, "ss")
    /\ apc' = "cr"
    /\ UNCHANGED <<nq, qi, frp_all, seen_titles, all_papers, from_ss, from_cr,
                   sas_out, out>>
    /\ UNCHANGED <<found, paused, limVars, engVars, fnVars, anaVars>>

\* lines 1488-1493: search_crossref returns r
CRReturns(r) ==
    /\ apc = "cr"
    /\ asked' = Append(asked, "cr")
    /\ all_papers' = all_papers \o CrossrefContribution(search_errors, Tagged(r, "cr"))
    /\ from_cr' = Tagged(r, "cr")
    /\ found' = (found \/ r # <<>>)
    /\ apc' = "rank"
    /\ UNCHANGED <<nq, qi, frp_all, seen_titles, search_errors, from_ss, sas_out, out>>
    /\ UNCHANGED <<paused, limVars, engVars, fnVars, anaVars>>

\* time.sleep(1.5) of line 1668, in ticks
INTER_QUERY_DELAY == 15

\* line 1665: if i < len(search_queries) - 1, for the query of index i of
\* the n generated
DelayTaken(i, n) == i < n - 1

\* lines 1507-1550: search_all_sources deduplicates, scores, sorts, cuts and
\* returns; lines 1652-1668: find_recent_papers merges what is new, sleeps
\* if line 1665 says so, and goes on to the next query, if any.
AllSourcesReturns ==
    /\ apc = "rank"
    /\ LET ranked == RankedUnique(all_papers)
           merged == MergeNew(ranked, frp_all, seen_titles)
       IN  /\ sas_out' = ranked
           /\ frp_all' = merged[1]
           /\ seen_titles' = merged[2]
    /\ paused' = IF DelayTaken(qi, nq)
                  THEN Append(paused, [after |-> qi, slept |-> INTER_QUERY_DELAY])
                  ELSE paused
    /\ qi' = qi + 1
    /\ apc' = IF qi + 1 < Min(nq, MAX_QUERIES_SEARCHED) THEN "next" ELSE "finish"
    /\ UNCHANGED <<nq, all_papers, search_errors, asked, from_ss, from_cr, out>>
    /\ UNCHANGED <<found, limVars, engVars, fnVars, anaVars>>

\* line 1644, next turn: search_all_sources is entered with the next query
NextQuery ==
    /\ apc = "next"
    /\ apc' = "ss"
    /\ all_papers' = <<>>
    /\ search_errors' = <<>>
    /\ asked' = <<>>
    /\ from_ss' = <<>>
    /\ from_cr' = <<>>
    /\ UNCHANGED <<nq, qi, frp_all, seen_titles, sas_out, out>>
    /\ UNCHANGED <<found, paused, limVars, engVars, fnVars, anaVars>>

\* lines 1675-1685: the recency filter, the sort and the cut
ReturnRecent ==
    /\ apc = "finish"
    /\ out' = RecentRanked(frp_all)
    /\ apc' = "done"
    /\ UNCHANGED <<nq, qi, frp_all, seen_titles, all_papers, search_errors, asked,
                   from_ss, from_cr, sas_out>>
    /\ UNCHANGED <<found, paused, limVars, engVars, fnVars, anaVars>>

InitAggregator ==
    /\ apc = "idle"
    /\ nq = 0
    /\ qi = 0
    /\ all_papers = <<>>
    /\ search_errors = <<>>
    /\ asked = <<>>
    /\ from_ss = <<>>
    /\ from_cr = <<>>
    /\ sas_out = <<>>
    /\ frp_all = <<>>
    /\ seen_titles = {}
    /\ out = <<>>
    /\ found = FALSE
    /\ paused = <<>>

AggregatorNext ==
    \/ \E n \in 1..MAX_QUERIES_GENERATED : FindRecentPapers(n)
    \/ \E r \in SourceLists \cup {SeriesFirstHalf} : SSReturns(r)
    \/ SSRaises
    \/ \E r \in SourceLists \cup {SeriesSecondHalf} : CRReturns(r)
    \/ AllSourcesReturns
    \/ NextQuery
    \/ ReturnRecent

(***************************************************************************)
(* Functions called on their own                                           *)
(***************************************************************************)

InitCalls ==
    /\ called = "none"
    /\ args = <<>>
    /\ returned = <<>>

\* A title of n characters
TitleOfLength(n) == [k \in 1..n |-> "x"]

\* The papers validate_paper is called with.
ValidatorYears == {1899, 1900, CurrentYear - 2, CurrentYear - 1, CurrentYear, CurrentYear + 1}
ValidatorTitleLengths == {9, 10, 300, 301}
ValidatorAuthorCounts == {0, 1, 50, 51}
ValidatorCitations == {0, 1, 999, 1000, 1001, 1999, 2000, 2001}
ValidatorPapers ==
    [year : ValidatorYears, title : {TitleOfLength(n) : n \in ValidatorTitleLengths},
     authors : ValidatorAuthorCounts, citations : ValidatorCitations]

\* PaperValidator.validate_paper(p) is called
ValidatePaper(p) ==
    /\ called' = "validate_paper"
    /\ args' = p
    /\ returned' = validate_paper(p)
    /\ UNCHANGED <<limVars, engVars, aggVars, anaVars>>

ValidatorNext == \E p \in ValidatorPapers : ValidatePaper(p)

\* The papers the relevance score is computed for: up to twelve years old or
\* dated next year, with citation counts whose fourth root of citations + 1
\* is a whole number, or past the 10 at which the citation score is capped.
ScoredYears == {CurrentYear + 1 - a : a \in 0..13}
ScoredCitations == {0, 15, 80, 255, 624, 1295, 2400, 4095, 6560, 9999, 10000, 12000}

\* lines 1534-1542: the loop body of search_all_sources that scores one paper
ScorePaper(year, citations) ==
    /\ called' = "relevance_score"
    /\ args' = [year |-> year, citations |-> citations]
    /\ returned' = Relevance(year, citations)
    /\ UNCHANGED <<limVars, engVars, aggVars, anaVars>>

ScoreNext == \E y \in ScoredYears, c \in ScoredCitations : ScorePaper(y, c)

(***************************************************************************)
(* ResearchGapAnalyzer.grade_paper_quality.  Scores are in tenths, the     *)
(* weighted sum in thousandths.  A paper is described by what the scoring  *)
(* reads of it: year, citations, kind of venue, numbers of authors and     *)
(* characters, and how many keywords of each list its title and abstract   *)
(* hold.                                                                   *)
(***************************************************************************)

\* _assess_methodology
assess_methodology(p) ==
    LET keywords == Min(5 * p.methodology_keywords, 30)
        venue == IF p.venue = "top" THEN 15
                 ELSE IF p.venue = "journal" THEN 5 ELSE 0
    IN  Min(50 + keywords + venue, 100)

\* _assess_citation_impact: citations_per_year = citations / paper_age
assess_citation_impact(p) ==
    LET paper_age == Max(CurrentYear - p.year, 1) IN
    IF p.citations >= 50 * paper_age THEN 100
    ELSE IF p.citations >= 20 * paper_age THEN 85
    ELSE IF p.citations >= 10 * paper_age THEN 70
    ELSE IF p.citations >= 5 * paper_age THEN 60
    ELSE IF p.citations >= 2 * paper_age THEN 50
    ELSE IF p.citations >= paper_age THEN 40
    ELSE Max(20, 30 - 2 * paper_age)

\* _assess_novelty
assess_novelty(p) ==
    LET recent == IF p.year >= CurrentYear - 1 THEN 10
                  ELSE IF p.year >= CurrentYear - 3 THEN 5 ELSE 0
    IN  Min(50 + Min(10 * p.novelty_in_title, 20) + Min(3 * p.novelty_in_abstract, 20)
               + recent, 100)

\* _assess_clarity
assess_clarity(p) ==
    LET title == IF 30 <= p.title_length /\ p.title_length <= 120 THEN 10
                 ELSE IF p.title_length < 20 \/ p.title_length > 150 THEN 0 - 10 ELSE 0
        abstract == IF p.abstract_length = 0 THEN 0
                    ELSE (IF 100 <= p.abstract_length /\ p.abstract_length <= 500
                          THEN 10 ELSE 0)
                         + Min(3 * p.structure_keywords, 20)
        authors == IF p.authors <= 6 THEN 5
                   ELSE IF p.authors > 15 THEN 0 - 5 ELSE 0
    IN  Min(50 + title + abstract + authors, 100)

\* _assess_applicability
assess_applicability(p) ==
    Min(50 + Min(10 * p.application_in_title, 20) + Min(2 * p.application_in_abstract, 20)
           + Min(5 * p.domains, 10), 100)

\* lines 1757-1763: the weighted sum, in thousandths
WeightedSum(m, c, n, cl, ap) == 25 * m + 20 * c + 25 * n + 15 * cl + 15 * ap

\* line 1766: the grade is looked up for the weighted sum as computed
GradedScore(overall, reported) == overall

\* _score_to_grade, for a score in thousandths
score_to_grade(score) ==
    IF score >= 9500 THEN "A+"
    ELSE IF score >= 9000 THEN "A"
    ELSE IF score >= 8500 THEN "A-"
    ELSE IF score >= 8000 THEN "B+"
    ELSE IF score >= 7000 THEN "B"
    ELSE IF score >= 6500 THEN "B-"
    ELSE IF score >= 6000 THEN "C+"
    ELSE IF score >= 5000 THEN "C"
    ELSE IF score >= 4000 THEN "C-"
    ELSE IF score >= 3000 THEN "D"
    ELSE "F"

\* round(x, 1) of a score in thousandths, in tenths.  Half-way between two
\* tenths the result depends on the binary value of the float: either.
RoundToTenths(x) ==
    IF x % 100 < 50 THEN {x \div 100}
    ELSE IF x % 100 > 50 THEN {x \div 100 + 1}
    ELSE {x \div 100, x \div 100 + 1}

\* lines 1790-1801: the neutral default
DefaultScore ==
    [overall_grade |-> "C", overall_score |-> 50, methodology_score |-> 50,
     citation_impact_score |-> 50, novelty_score |-> 50, clarity_score |-> 50,
     applicability_score |-> 50, explanation |-> "unable to assess",
     strengths |-> {"in database"}, weaknesses |-> {"not completed"}]

\* The factors, and the thresholds of lines 1977-1999 in tenths
Factors == {"methodology", "citation_impact", "novelty", "clarity", "applicability"}

\* One threshold for the strength note of every factor.
StrengthAtUniform(factor) == 80

\* lines 1978-1987: >= 8.0, and >= 7.0 for the citation impact
StrengthAt(factor) == IF factor = "citation_impact" THEN 70 ELSE 80

\* lines 1990-1999: < 5.0, and < 4.0 for the citation impact
WeaknessBelow(factor) == IF factor = "citation_impact" THEN 40 ELSE 50

\* _generate_paper_assessment, lines 1971-1999: the notes, each named by its
\* factor; scores maps the factors to the unrounded sub-scores
PaperAssessment(scores) ==
    [strengths |-> {f \in Factors : scores[f] >= StrengthAt(f)},
     weaknesses |-> {f \in Factors : scores[f] < WeaknessBelow(f)}]

\* The steps of grade_paper_quality that can throw.
GradingSteps ==
    {"methodology", "citation_impact", "novelty", "clarity", "applicability",
     "assessment"}
NoFault == "none"

\* lines 1740-1785: the score of paper p when nothing throws; reported is
\* what round(overall_score, 1) gave
QualityScore(p, reported) ==
    LET m == assess_methodology(p)
        c == assess_citation_impact(p)
        n == assess_novelty(p)
        cl == assess_clarity(p)
        ap == assess_applicability(p)
        overall == WeightedSum(m, c, n, cl, ap)
        notes == PaperAssessment([f \in Factors |->
                    CASE f = "methodology" -> m [] f = "citation_impact" -> c
                      [] f = "novelty" -> n [] f = "clarity" -> cl
                      [] f = "applicability" -> ap])
    IN  [overall_grade |-> score_to_grade(GradedScore(overall, reported)),
         overall_score |-> reported, methodology_score |-> m,
         citation_impact_score |-> c, novelty_score |-> n, clarity_score |-> cl,
         applicability_score |-> ap, explanation |-> "assessed",
         strengths |-> notes.strengths, weaknesses |-> notes.weaknesses]

\* The values of round(overall_score, 1) for paper p
ReportedScores(p) ==
    RoundToTenths(WeightedSum(assess_methodology(p), assess_citation_impact(p),
                              assess_novelty(p), assess_clarity(p),
                              assess_applicability(p)))

\* The papers grade_paper_quality is called with: papers the validator
\* accepts; an empty abstract holds no keyword.
GradedPapers ==
    {p \in [year : {CurrentYear, CurrentYear - 1, CurrentYear - 8},
            citations : {0, 10, 500},
            venue : {"other", "top"},
            authors : {3, 8},
            title_length : {15, 60},
            abstract_length : {0, 300},
            methodology_keywords : {0, 6},
            novelty_in_title : {0, 2},
            novelty_in_abstract : {0, 3},
            structure_keywords : {0, 4},
            application_in_title : {0, 1},
            application_in_abstract : {0, 1},
            domains : {0, 2}] :
        /\ ~TooManyCitations(p.citations, CurrentYear - p.year)
        /\ p.abstract_length = 0 =>
             /\ p.methodology_keywords = 0 /\ p.novelty_in_abstract = 0
             /\ p.structure_keywords = 0 /\ p.application_in_abstract = 0}

\* grade_paper_quality(p) is called, once; fault names the step that throws,
\* if any
GradePaperQuality(p, fault) ==
    /\ called = "none"
    /\ called' = "grade_paper_quality"
    /\ args' = [paper |-> p, fault |-> fault]
    /\ IF fault = NoFault
       THEN \E reported \in ReportedScores(p) : returned' = QualityScore(p, reported)
       ELSE returned' = DefaultScore
    /\ UNCHANGED <<limVars, engVars, aggVars, anaVars>>

GradeNext ==
    /\ called = "none"
    /\ \E p \in GradedPapers, fault \in GradingSteps \cup {NoFault} :
          GradePaperQuality(p, fault)

(***************************************************************************)
(* ResearchGapAnalyzer._generate_search_queries, lines 1687-1736.  Strings *)
(* are sequences of characters.                                            *)
(***************************************************************************)
SHORT_TOPIC_WORDS == 3
LLM_QUERY_LIMIT == 3
LLM_QUERY_MIN_WORDS == 2
LLM_QUERY_MAX_WORDS == 8

\* len(s.split()): the runs of characters that are not spaces
WordCount(s) ==
    Cardinality({i \in 1..Len(s) : ~IsSpace(s[i]) /\ (i = 1 \/ IsSpace(s[i - 1]))})

\* lines 1693-1697
RecentAdvances ==
    <<" ","r","e","c","e","n","t"," ","a","d","v","a","n","c","e","s">>
SystematicReview ==
    <<" ","s","y","s","t","e","m","a","t","i","c"," ","r","e","v","i","e","w">>
Survey == <<" ","s","u","r","v","e","y">>
TopicVariations(topic) ==
    <<topic \o RecentAdvances, topic \o SystematicReview, topic \o Survey>>

\* A key that tells queries apart by exact equality.
QueryKeyExact(q) == q

\* line 1730: q.lower().strip()
QueryKey(q) == Strip(Lower(q))

\* line 1723: isinstance(q, str) and 2 <= len(q.split()) <= 8
AcceptedQuery(q) ==
    /\ q.str
    /\ LLM_QUERY_MIN_WORDS <= WordCount(q.text)
    /\ WordCount(q.text) <= LLM_QUERY_MAX_WORDS

\* lines 1722-1724: the first three elements of the array, those accepted
LLMQueries(items) ==
    LET kept == SelectSeq(Take(items, LLM_QUERY_LIMIT), AcceptedQuery)
    IN  [i \in 1..Len(kept) |-> kept[i].text]

\* lines 1727-1734
RECURSIVE UniqueQueries(_, _, _)
UniqueQueries(queries, seen, unique_queries) ==
    IF queries = <<>> THEN unique_queries
    ELSE LET q == Head(queries)
             q_lower == QueryKey(q)
         IN  IF q_lower \notin seen
             THEN UniqueQueries(Tail(queries), seen \cup {q_lower},
                                Append(unique_queries, q))
             ELSE UniqueQueries(Tail(queries), seen, unique_queries)

\* lines 1689-1725: the list before duplicates are removed.  The reply of
\* the model is an array of elements, a text without an array, or an
\* exception; only an array adds queries.
GeneratedQueries(topic, providers, reply) ==
    <<topic>>
    \o (IF WordCount(topic) <= SHORT_TOPIC_WORDS THEN TopicVariations(topic) ELSE <<>>)
    \o (IF providers /\ reply.kind = "array" THEN LLMQueries(reply.items) ELSE <<>>)

\* Topics: every string of at most MaxTopicLen characters, and longer ones
\* of three, four and five words.
TopicChars == {"a", "A", " "}
LongTopics ==
    { <<"a"," ","A"," ","a">>,
      <<"a"," ","a"," ","A"," ","a">>,
      <<"A"," "," ","a"," ","a"," ","a">>,
      <<"a"," ","a"," ","a"," ","a"," ","a">> }
Topics ==
    UNION {[1..n -> TopicChars] : n \in 0..MaxTopicLen} \cup LongTopics

\* Elements of the array the model replies with: strings of one, two and
\* nine words, a number, and the topic followed by a space.
NineWords ==
    <<"x"," ","x"," ","x"," ","x"," ","x"," ","x"," ","x"," ","x"," ","x">>
ReplyElements(topic) ==
    { [str |-> TRUE, text |-> <<"x">>],
      [str |-> TRUE, text |-> <<"x"," ","y">>],
      [str |-> TRUE, text |-> <<" ","X"," ","Y">>],
      [str |-> TRUE, text |-> NineWords],
      [str |-> FALSE, text |-> <<>>],
      [str |-> TRUE, text |-> topic \o <<" ">>] }
NoReply == [kind |-> "none", items |-> <<>>]
Replies(topic) ==
    { [kind |-> "raise", items |-> <<>>], [kind |-> "text", items |-> <<>>] }
    \cup { [kind |-> "array", items |-> items] :
              items \in UNION {[1..n -> ReplyElements(topic)] :
                                  n \in 0..(LLM_QUERY_LIMIT + 1)} }

GenerateSearchQueries(topic, providers, reply) ==
    /\ called' = "_generate_search_queries"
    /\ args' = [topic |-> topic, providers |-> providers, reply |-> reply]
    /\ LET queries == GeneratedQueries(topic, providers, reply)
       IN  returned' = [queries |-> queries,
                        result |-> Take(UniqueQueries(queries, {}, <<>>),
                                        MAX_QUERIES_GENERATED)]
    /\ UNCHANGED <<limVars, engVars, aggVars, anaVars>>

QueriesNext ==
    /\ called = "none"
    /\ \E topic \in Topics :
          \/ GenerateSearchQueries(topic, FALSE, NoReply)
          \/ \E reply \in Replies(topic) : GenerateSearchQueries(topic, TRUE, reply)

(***************************************************************************)
(* LLMProviderManager.generate_response, lines 1050-1080, with             *)
(* _call_provider, lines 1082-1114.  A response is who wrote it and how    *)
(* many characters it has once stripped.                                   *)
(***************************************************************************)

\* self.providers is filled in this order by _initialize_providers
ProviderOrder == <<"openai", "anthropic", "gemini">>
ProviderNames == {ProviderOrder[i] : i \in 1..Len(ProviderOrder)}
NoProvider == "none"

\* What the API call of a provider does: a text, a text of a few
\* characters, an exception
CallOutcomes == {"valid", "short", "raise"}

\* _fallback_response, lines 1116-1147: the shortest of its texts
FallbackResponse == [by |-> "fallback", length |-> 117]

\* lines 1061 and 1072: response and len(response.strip()) > 10
VALID_RESPONSE_OVER == 10
ValidResponse(r) == r.length > VALID_RESPONSE_OVER

\* _call_provider: the except of line 1111 catches what the API call
\* raises, and line 1114 returns the fallback text
CallProvider(name, outcome) ==
    CASE outcome = "valid" -> [by |-> name, length |-> 50]
      [] outcome = "short" -> [by |-> name, length |-> 5]
      [] outcome = "raise" -> FallbackResponse

\* lines 1066-1077: the loop over self.providers.keys(), from the i-th on
RECURSIVE TryOthers(_, _, _, _, _, _)
TryOthers(i, providers, provider_to_use, outcome, tried, current) ==
    IF i > Len(ProviderOrder)
    THEN [response |-> FallbackResponse, tried |-> tried, current_provider |-> current]
    ELSE LET name == ProviderOrder[i] IN
         IF name \notin providers \/ name = provider_to_use
         THEN TryOthers(i + 1, providers, provider_to_use, outcome, tried, current)
         ELSE LET r == CallProvider(name, outcome[name]) IN
              IF ValidResponse(r)
              THEN [response |-> r, tried |-> Append(tried, name),
                    current_provider |-> name]
              ELSE TryOthers(i + 1, providers, provider_to_use, outcome,
                             Append(tried, name), name)

\* generate_response(prompt, provider) of a manager with these providers and
\* this current_provider; outcome says what each provider's API call does
GenerateResponseResult(providers, current, provider, outcome) ==
    LET provider_to_use == IF provider # NoProvider THEN provider ELSE current IN
    IF providers = {}
    THEN [response |-> FallbackResponse, tried |-> <<>>, current_provider |-> current]
    ELSE IF provider_to_use \in providers
    THEN LET r == CallProvider(provider_to_use, outcome[provider_to_use]) IN
         IF ValidResponse(r)
         THEN [response |-> r, tried |-> <<provider_to_use>>,
               current_provider |-> current]
         ELSE TryOthers(1, providers, provider_to_use, outcome,
                        <<provider_to_use>>, current)
    ELSE TryOthers(1, providers, provider_to_use, outcome, <<>>, current)

GenerateResponse(providers, current, provider, outcome) ==
    /\ called' = "generate_response"
    /\ args' = [providers |-> providers, current_provider |-> current,
                provider |-> provider, outcome |-> outcome]
    /\ returned' = GenerateResponseResult(providers, current, provider, outcome)
    /\ UNCHANGED <<limVars, engVars, aggVars, anaVars>>

\* A manager has as current_provider one of its providers (lines 1018-1025,
\* set_provider), or none when it has no provider.
ResponseNext ==
    /\ called = "none"
    /\ \E providers \in SUBSET ProviderNames :
       \E current \in (IF providers = {} THEN {NoProvider} ELSE providers) :
       \E provider \in ProviderNames \cup {NoProvider} :
       \E outcome \in [providers -> CallOutcomes] :
          GenerateResponse(providers, current, provider, outcome)

\* The attempts exponential_backoff_wait is called for.
BackoffAttempts == 0..(MAX_RETRIES - 1)

\* SemanticScholarRateLimiter.exponential_backoff_wait(attempt,
\* status_callback), lines 1203-1209: the callback, if any, is told, then the
\* caller sleeps.
ExponentialBackoffWait(attempt, status_callback) ==
    /\ now < Epoch + Seconds(MaxBackoffClock)
    /\ called' = "exponential_backoff_wait"
    /\ args' = [attempt |-> attempt, status_callback |-> status_callback, at |-> now]
    /\ returned' = (IF status_callback THEN <<"notify">> ELSE <<>>) \o <<"sleep">>
    /\ now' = SleepUntil(now, BackoffWait(attempt))
    /\ UNCHANGED <<rate_limit, last_request_time, lock, pc, calls, loc, hist, permits>>
    /\ UNCHANGED <<engVars, aggVars, anaVars>>

BackoffNext ==
    \E attempt \in BackoffAttempts, cb \in BOOLEAN : ExponentialBackoffWait(attempt, cb)

(***************************************************************************)
(* The handlers of ResearchGapAnalyzer that grade the papers found         *)
(***************************************************************************)

\* for paper in self.recent_papers[:10]
PAPER_GRADING_LIMIT == 10
\* for paper in papers[:8]
PAPER_SEARCH_GRADING_LIMIT == 8

\* Three papers, as the scoring reads them.
PaperP1 ==
    [paper_id |-> "p1", year |-> CurrentYear - 1, citations |-> 500, venue |-> "top",
     authors |-> 3, title_length |-> 60, abstract_length |-> 300,
     methodology_keywords |-> 6, novelty_in_title |-> 2, novelty_in_abstract |-> 3,
     structure_keywords |-> 4, application_in_title |-> 1,
     application_in_abstract |-> 0, domains |-> 2]
PaperP2 ==
    [paper_id |-> "p2", year |-> CurrentYear - 8, citations |-> 0, venue |-> "other",
     authors |-> 3, title_length |-> 15, abstract_length |-> 300,
     methodology_keywords |-> 0, novelty_in_title |-> 0, novelty_in_abstract |-> 0,
     structure_keywords |-> 4, application_in_title |-> 0,
     application_in_abstract |-> 5, domains |-> 2]
PaperP3 ==
    [paper_id |-> "p3", year |-> CurrentYear, citations |-> 0, venue |-> "journal",
     authors |-> 8, title_length |-> 25, abstract_length |-> 0,
     methodology_keywords |-> 0, novelty_in_title |-> 1, novelty_in_abstract |-> 0,
     structure_keywords |-> 0, application_in_title |-> 0,
     application_in_abstract |-> 0, domains |-> 0]

\* The topics extract_research_topic finds in the messages.
TopicA == "graph learning"
TopicB == "protein folding"

\* What find_recent_papers gives _handle_paper_search.
FoundLists == {<<>>, <<PaperP2>>, <<PaperP1, PaperP2, PaperP3>>}

\* UserExpertiseLevel (lines 860-865) in the order of expertise_hierarchy
\* (lines 3377-3382); user_expertise is None at the start
NoExpertise == 0
BEGINNER == 1
INTERMEDIATE == 2
ADVANCED == 3
EXPERT == 4

NoRoute == [user_input |-> <<>>, handler |-> "none"]

\* ConversationPhase, lines 850-858
INITIALIZATION == "initialization"
TOPIC_EXPLORATION == "topic_exploration"
DOMAIN_REFINEMENT == "domain_refinement"
LITERATURE_REVIEW == "literature_review"
PAPER_ANALYSIS == "paper_analysis"
GAP_ANALYSIS == "gap_analysis"
RECOMMENDATION_REVIEW == "recommendation_review"

\* current_topic is None at the start (line 1560); extract_research_topic
\* returns None, or an empty text between quotes (line 1604), when it finds
\* no topic, and both are false where the topic is tested
NoTopic == "no topic"
NoTopicSearch == [topic |-> NoTopic, named |-> NoTopic, had |-> NoTopic]

InitAnalyzer ==
    /\ recent_papers = <<>>
    /\ paper_scores = <<>>
    /\ handler = "none"
    /\ todo = <<>>
    /\ graded_papers = <<>>
    /\ response = "none"
    /\ identified_gaps = <<>>
    /\ user_expertise = NoExpertise
    /\ routed = NoRoute
    /\ conversation_phase = INITIALIZATION
    /\ current_topic = NoTopic
    /\ searched = NoTopicSearch

\* self.paper_scores[paper_id] = score
WithScore(scores, paper_id, score) ==
    [id \in DOMAIN scores \cup {paper_id} |->
        IF id = paper_id THEN score ELSE scores[id]]

\* A grade_paper_quality without its except clause.
ErrorEscapes == FALSE

\* line 1787: except Exception catches whatever a step of the try throws
ErrorCaught == TRUE

\* A _handle_paper_search that prefers the topic the message names.
TopicNamedFirst(current, named) == IF named # NoTopic THEN named ELSE current

\* line 3143: topic = self.current_topic or self.extract_research_topic(user_input)
TopicSearched(current, named) == IF current # NoTopic THEN current ELSE named

\* A _handle_paper_search that keeps the papers it has when it finds none.
PapersKeptWhenNone(papers, loaded) == IF papers = <<>> THEN loaded ELSE papers

\* line 3170: self.recent_papers = papers
PapersLoaded(papers, loaded) == papers

\* lines 3141-3190 of _handle_paper_search for a message in which
\* extract_research_topic finds the topic named, and a find_recent_papers
\* that returns papers: without a topic it answers at once; with one the
\* topic and the phase are set, the papers found are stored and the grading
\* loop of line 3192 is entered
HandlePaperSearch(named, papers) ==
    /\ LET topic == TopicSearched(current_topic, named) IN
       IF topic = NoTopic
       THEN /\ response' = "topic needed"
            /\ UNCHANGED <<recent_papers, handler, todo, graded_papers, convVars>>
       ELSE /\ current_topic' = topic
            /\ conversation_phase' = LITERATURE_REVIEW
            /\ searched' = [topic |-> topic, named |-> named, had |-> current_topic]
            /\ recent_papers' = PapersLoaded(papers, recent_papers)
            /\ IF papers = <<>>
               THEN /\ response' = "no papers found"
                    /\ UNCHANGED <<handler, todo, graded_papers>>
               ELSE /\ handler' = "paper_search"
                    /\ todo' = Take(papers, PAPER_SEARCH_GRADING_LIMIT)
                    /\ graded_papers' = <<>>
                    /\ response' = "none"
    /\ UNCHANGED <<paper_scores, identified_gaps, user_expertise>>

\* _handle_paper_search, called between two messages
PaperSearch(named, papers) ==
    /\ handler = "none"
    /\ HandlePaperSearch(named, papers)
    /\ UNCHANGED <<routed, limVars, engVars, aggVars, fnVars>>

\* A _handle_paper_grading that sets the phase before it looks for papers.
PhaseSetFirst(phase, papers) == PAPER_ANALYSIS

\* lines 2433-2445: the phase is set after the return of a call made with no
\* papers loaded
PhaseOnGrading(phase, papers) == IF papers = <<>> THEN phase ELSE PAPER_ANALYSIS

\* lines 2431-2449 of _handle_paper_grading: without papers it answers at
\* once, with papers the grading loop of line 2450 is entered
HandlePaperGrading ==
    /\ IF recent_papers = <<>>
       THEN /\ response' = "search first"
            /\ UNCHANGED <<handler, todo, graded_papers>>
       ELSE /\ handler' = "paper_grading"
            /\ todo' = Take(recent_papers, PAPER_GRADING_LIMIT)
            /\ graded_papers' = <<>>
            /\ response' = "none"
    /\ conversation_phase' = PhaseOnGrading(conversation_phase, recent_papers)
    /\ UNCHANGED <<recent_papers, paper_scores, current_topic, searched,
                   identified_gaps, user_expertise>>

\* _handle_paper_grading, called between two messages
PaperGrading ==
    /\ handler = "none"
    /\ HandlePaperGrading
    /\ UNCHANGED <<routed, limVars, engVars, aggVars, fnVars>>

\* One turn of the loop (lines 2450-2453, 3192-3195): grade_paper_quality on
\* the next paper, in which the step named by fault throws, if any; the
\* score is stored and the loop goes on.
GradeOne(fault) ==
    /\ handler \in {"paper_search", "paper_grading"}
    /\ todo # <<>>
    /\ LET paper == Head(todo) IN
       IF fault = NoFault \/ ErrorCaught
       THEN /\ \E reported \in ReportedScores(paper) :
                 LET score == IF fault = NoFault THEN QualityScore(paper, reported)
                              ELSE DefaultScore
                 IN  /\ paper_scores' = WithScore(paper_scores, paper.paper_id, score)
                     /\ graded_papers' = Append(graded_papers,
                            [paper_id |-> paper.paper_id, fault |-> fault, score |-> score])
            /\ todo' = Tail(todo)
            /\ UNCHANGED <<handler, response>>
       ELSE /\ handler' = "none"
            /\ response' = "raised"
            /\ todo' = <<>>
            /\ UNCHANGED <<paper_scores, graded_papers>>
    /\ UNCHANGED <<recent_papers, convVars>>
    /\ UNCHANGED <<msgVars, limVars, engVars, aggVars, fnVars>>

\* The loop is over: the handler formats its answer and returns
GradingDone ==
    /\ handler \in {"paper_search", "paper_grading"}
    /\ todo = <<>>
    /\ handler' = "none"
    /\ response' = "graded"
    /\ UNCHANGED <<recent_papers, paper_scores, todo, graded_papers, convVars>>
    /\ UNCHANGED <<msgVars, limVars, engVars, aggVars, fnVars>>

GradingNext ==
    \/ \E papers \in FoundLists : PaperSearch(TopicA, papers)
    \/ PaperGrading
    \/ \E fault \in GradingSteps \cup {NoFault} : GradeOne(fault)
    \/ GradingDone

(***************************************************************************)
(* ResearchGapAnalyzer.process_message, lines 2348-2366, and the handlers  *)
(* it gives the "show more" requests to                                    *)
(***************************************************************************)

\* The phrases of lines 2355-2366
Beginner == <<"b","e","g","i","n","n","e","r">>
Intermediate == <<"i","n","t","e","r","m","e","d","i","a","t","e">>
Advanced == <<"a","d","v","a","n","c","e","d">>
Expert == <<"e","x","p","e","r","t">>
ShowMorePapers == <<"s","h","o","w"," ","m","o","r","e"," ","p","a","p","e","r","s">>
ShowAllPapers == <<"s","h","o","w"," ","a","l","l"," ","p","a","p","e","r","s">>
MorePapers == <<"m","o","r","e"," ","p","a","p","e","r","s">>
ShowMoreGaps == <<"s","h","o","w"," ","m","o","r","e"," ","g","a","p","s">>
ShowAllGaps == <<"s","h","o","w"," ","a","l","l"," ","g","a","p","s">>
MoreGaps == <<"m","o","r","e"," ","g","a","p","s">>
ShowMoreGradedPapers == <<"s","h","o","w"," ","m","o","r","e"," ","g","r","a","d","e","d"," ","p","a","p","e","r","s">>
ShowAllGradedPapers == <<"s","h","o","w"," ","a","l","l"," ","g","r","a","d","e","d"," ","p","a","p","e","r","s">>
MoreGradedPapers == <<"m","o","r","e"," ","g","r","a","d","e","d"," ","p","a","p","e","r","s">>

\* any(phrase in lower_input for phrase in phrases)
AnyIn(phrases, lower_input) == \E phrase \in phrases : Contains(lower_input, phrase)

\* lines 2352-2366: the checks in their order; a message that passes them
\* all goes on to the checks of line 2368 and after
Route(user_input) ==
    LET lower_input == Lower(user_input) IN
    IF AnyIn({Beginner, Intermediate, Advanced, Expert}, lower_input)
    THEN "_handle_expertise_setting"
    ELSE IF AnyIn({ShowMorePapers, ShowAllPapers, MorePapers}, lower_input)
    THEN "_handle_show_more_papers"
    ELSE IF AnyIn({ShowMoreGaps, ShowAllGaps, MoreGaps}, lower_input)
    THEN "_handle_show_more_gaps"
    ELSE IF AnyIn({ShowMoreGradedPapers, ShowAllGradedPapers, MoreGradedPapers},
                  lower_input)
    THEN "_handle_show_more_graded_papers"
    ELSE "later checks"

\* lines 2394-2411 of _handle_expertise_setting
ExpertiseNamed(lower_input) ==
    IF Contains(lower_input, Beginner) THEN BEGINNER
    ELSE IF Contains(lower_input, Intermediate) THEN INTERMEDIATE
    ELSE IF Contains(lower_input, Advanced) THEN ADVANCED
    ELSE EXPERT

\* _handle_expertise_setting
HandleExpertiseSetting(user_input) ==
    /\ user_expertise' = ExpertiseNamed(Lower(user_input))
    /\ response' = "expertise set"
    /\ conversation_phase' = TOPIC_EXPLORATION
    /\ UNCHANGED <<recent_papers, paper_scores, identified_gaps, current_topic, searched>>

\* The thresholds of lines 2583, 2663 and 2775
SHOWN_PAPERS == 5
SHOWN_GAPS == 4
SHOWN_GRADED_PAPERS == 5

\* lines 2600-2606: the papers that have no score yet are graded
RECURSIVE ScoresOfAll(_, _)
ScoresOfAll(papers, scores) ==
    IF papers = <<>> THEN scores
    ELSE LET paper == Head(papers) IN
         IF paper.paper_id \in DOMAIN scores
         THEN ScoresOfAll(Tail(papers), scores)
         ELSE ScoresOfAll(Tail(papers),
                  WithScore(scores, paper.paper_id,
                      QualityScore(paper, CHOOSE r \in ReportedScores(paper) : TRUE)))

\* _handle_show_more_papers, lines 2571-2646
HandleShowMorePapers ==
    /\ IF recent_papers = <<>>
       THEN response' = "no papers to show" /\ UNCHANGED paper_scores
       ELSE IF Len(recent_papers) <= SHOWN_PAPERS
       THEN response' = "all papers already shown" /\ UNCHANGED paper_scores
       ELSE /\ paper_scores' = ScoresOfAll(recent_papers, paper_scores)
            /\ response' = "complete paper list"
    /\ UNCHANGED <<recent_papers, identified_gaps, user_expertise, convVars>>

\* _is_gap_suitable_for_expertise, lines 3375-3388; a gap is the expertise
\* it requires
IsGapSuitable(gap, expertise) == gap <= expertise + 1

\* _prioritize_gaps_by_expertise, lines 3354-3373: the gaps that remain
PrioritizedGaps(gaps) ==
    IF user_expertise = NoExpertise THEN gaps
    ELSE SelectSeq(gaps, LAMBDA gap : IsGapSuitable(gap, user_expertise))

\* _handle_show_more_gaps, lines 2648-2758; line 2743 divides by the number
\* of the gaps that remain
HandleShowMoreGaps ==
    /\ IF identified_gaps = <<>>
       THEN response' = "no research gaps available"
       ELSE IF Len(identified_gaps) <= SHOWN_GAPS
       THEN response' = "all research gaps already shown"
       ELSE IF PrioritizedGaps(identified_gaps) = <<>>
       THEN response' = "raised"
       ELSE response' = "complete gap analysis"
    /\ UNCHANGED <<recent_papers, paper_scores, identified_gaps, user_expertise,
                   convVars>>

\* lines 2788-2793: the scores whose paper is among recent_papers
ScoredAndLoaded ==
    {id \in DOMAIN paper_scores :
        \E i \in 1..Len(recent_papers) : recent_papers[i].paper_id = id}

\* _handle_show_more_graded_papers, lines 2760-2860; line 2844 divides by the
\* number of the scores whose paper is loaded
HandleShowMoreGradedPapers ==
    /\ IF DOMAIN paper_scores = {}
       THEN response' = "no graded papers available"
       ELSE IF Cardinality(DOMAIN paper_scores) <= SHOWN_GRADED_PAPERS
       THEN response' = "all graded papers already shown"
       ELSE IF ScoredAndLoaded = {}
       THEN response' = "raised"
       ELSE response' = "complete paper quality assessment"
    /\ UNCHANGED <<recent_papers, paper_scores, identified_gaps, user_expertise,
                   convVars>>

\* process_message for a message that one of the checks of lines 2355-2366
\* takes
ProcessMessage(user_input) ==
    /\ handler = "none"
    /\ Route(user_input) # "later checks"
    /\ routed' = [user_input |-> user_input, handler |-> Route(user_input)]
    /\ CASE Route(user_input) = "_handle_expertise_setting" ->
                HandleExpertiseSetting(user_input)
         [] Route(user_input) = "_handle_show_more_papers" -> HandleShowMorePapers
         [] Route(user_input) = "_handle_show_more_gaps" -> HandleShowMoreGaps
         [] Route(user_input) = "_handle_show_more_graded_papers" ->
                HandleShowMoreGradedPapers
    /\ UNCHANGED <<handler, todo, graded_papers>>
    /\ UNCHANGED <<limVars, engVars, aggVars, fnVars>>

\* _handle_gap_analysis, lines 3244-3342: the gaps analyze_research_gaps
\* found are kept; the phase is GAP_ANALYSIS (line 3258) when it returns
\* without gaps and RECOMMENDATION_REVIEW (line 3342) otherwise
HandleGapAnalysis(gaps) ==
    /\ IF recent_papers = <<>>
       THEN /\ response' = "search first"
            /\ UNCHANGED <<identified_gaps, conversation_phase>>
       ELSE /\ identified_gaps' = gaps
            /\ response' = IF gaps = <<>> THEN "no gaps found" ELSE "gaps"
            /\ conversation_phase' = IF gaps = <<>> THEN GAP_ANALYSIS
                                     ELSE RECOMMENDATION_REVIEW
    /\ UNCHANGED <<recent_papers, paper_scores, handler, todo, graded_papers,
                   user_expertise, current_topic, searched>>

\* _handle_gap_analysis, called between two messages
GapAnalysis(gaps) ==
    /\ handler = "none"
    /\ HandleGapAnalysis(gaps)
    /\ UNCHANGED <<routed, limVars, engVars, aggVars, fnVars>>

\* The messages: those of the test, and others with the same phrases
Messages ==
    { ShowMorePapers, ShowMoreGaps, ShowMoreGradedPapers,
      <<"S","h","o","w"," ","A","l","l"," ","G","r","a","d","e","d"," ","P","a","p","e","r","s">>,
      <<"m","o","r","e"," ","g","a","p","s"," ","p","l","e","a","s","e">>,
      <<"s","h","o","w"," ","m","o","r","e"," ","p","a","p","e","r","s"," ","b","y"," ","e","x","p","e","r","t","s">>,
      <<"i"," ","a","m"," ","a"," ","b","e","g","i","n","n","e","r">>,
      <<"s","h","o","w"," ","m","o","r","e"," ","g","a","p","s"," ","a","n","d"," ","m","o","r","e"," ","g","r","a","d","e","d"," ","p","a","p","e","r","s">> }

\* The papers a search finds: the first n of MaxFound papers, or the last
PaperIds == <<"q1", "q2", "q3", "q4", "q5", "q6", "q7", "q8", "q9", "q10", "q11">>
FoundPaper(k) == [PaperP2 EXCEPT !.paper_id = PaperIds[k]]
FoundPapers(first, last) == [k \in 1..(last - first + 1) |-> FoundPaper(first + k - 1)]
RoutedLists ==
    { <<>>, FoundPapers(1, 6), FoundPapers(1, MaxFound), FoundPapers(MaxFound, MaxFound) }

\* What analyze_research_gaps returns: at most 5 gaps (line 2160), each the
\* expertise it requires
GapLists ==
    { <<>>,
      <<INTERMEDIATE, INTERMEDIATE, INTERMEDIATE>>,
      <<INTERMEDIATE, INTERMEDIATE, INTERMEDIATE, INTERMEDIATE, INTERMEDIATE>>,
      <<EXPERT, EXPERT, ADVANCED, ADVANCED, EXPERT>> }

RoutingNext ==
    \/ \E user_input \in Messages : ProcessMessage(user_input)
    \/ \E papers \in RoutedLists : PaperSearch(TopicA, papers)
    \/ GradeOne(NoFault)
    \/ GradingDone
    \/ \E gaps \in GapLists : GapAnalysis(gaps)

(***************************************************************************)
(* ResearchGapAnalyzer.process_message, lines 2368-2392: the later checks  *)
(***************************************************************************)

\* The phrases of lines 2369, 2373 and 2377
GradePapers == <<"g","r","a","d","e"," ","p","a","p","e","r","s">>
EvaluatePapers == <<"e","v","a","l","u","a","t","e"," ","p","a","p","e","r","s">>
AssessPapers == <<"a","s","s","e","s","s"," ","p","a","p","e","r","s">>
PaperQuality == <<"p","a","p","e","r"," ","q","u","a","l","i","t","y">>
FindPapers == <<"f","i","n","d"," ","p","a","p","e","r","s">>
SearchPapers == <<"s","e","a","r","c","h"," ","p","a","p","e","r","s">>
RecentPapers == <<"r","e","c","e","n","t"," ","p","a","p","e","r","s">>
ShowPapers == <<"s","h","o","w"," ","p","a","p","e","r","s">>
AnalyzeGaps == <<"a","n","a","l","y","z","e"," ","g","a","p","s">>
ResearchGaps == <<"r","e","s","e","a","r","c","h"," ","g","a","p","s">>
FindGaps == <<"f","i","n","d"," ","g","a","p","s">>
WhatGaps == <<"w","h","a","t"," ","g","a","p","s">>

\* lines 2368-2378: the checks in their order, for a message none of the
\* checks of lines 2355-2366 took
LaterRoute(user_input) ==
    LET lower_input == Lower(user_input) IN
    IF AnyIn({GradePapers, EvaluatePapers, AssessPapers, PaperQuality}, lower_input)
    THEN "_handle_paper_grading"
    ELSE IF AnyIn({FindPapers, SearchPapers, RecentPapers, ShowPapers}, lower_input)
    THEN "_handle_paper_search"
    ELSE IF AnyIn({AnalyzeGaps, ResearchGaps, FindGaps, WhatGaps}, lower_input)
    THEN "_handle_gap_analysis"
    ELSE "no phrase"

\* _handle_domain_refinement, lines 2520-2541 (user_interests is not kept here)
HandleDomainRefinement ==
    /\ conversation_phase' = LITERATURE_REVIEW
    /\ response' = "focus refined"
    /\ UNCHANGED <<recent_papers, paper_scores, handler, todo, graded_papers,
                   identified_gaps, user_expertise, current_topic, searched>>

\* lines 2385-2392: the topic extract_research_topic finds is kept and
\* _handle_topic_introduction (line 3401) sets the phase; without a
\* topic _handle_general_query answers
HandleTopic(named) ==
    /\ IF named # NoTopic
       THEN /\ current_topic' = named
            /\ conversation_phase' = DOMAIN_REFINEMENT
            /\ response' = "topic introduced"
       ELSE /\ response' = "general answer"
            /\ UNCHANGED <<current_topic, conversation_phase>>
    /\ UNCHANGED <<recent_papers, paper_scores, handler, todo, graded_papers,
                   identified_gaps, user_expertise, searched>>

\* The messages of a conversation
ConversationMessages ==
    { <<"G","r","a","d","e"," ","p","a","p","e","r","s">>,
      <<"e","v","a","l","u","a","t","e"," ","p","a","p","e","r","s"," ","n","o","w">>,
      <<"f","i","n","d"," ","p","a","p","e","r","s">>,
      <<"R","e","c","e","n","t"," ","P","a","p","e","r","s"," ","o","n"," ","p","r","o","t","e","i","n"," ","f","o","l","d","i","n","g">>,
      <<"w","h","a","t"," ","g","a","p","s"," ","a","r","e"," ","t","h","e","r","e">>,
      <<"r","e","s","e","a","r","c","h"," ","g","a","p","s"," ","a","n","d"," ","p","a","p","e","r"," ","q","u","a","l","i","t","y">>,
      <<"f","i","n","d"," ","p","a","p","e","r","s"," ","o","n"," ","e","x","p","e","r","t"," ","s","y","s","t","e","m","s">>,
      <<"s","h","o","w"," ","m","o","r","e"," ","p","a","p","e","r","s">>,
      <<"g","r","a","p","h"," ","l","e","a","r","n","i","n","g">> }

\* Route and LaterRoute of each message of a conversation
Routes == [user_input \in ConversationMessages |->
              [first |-> Route(user_input), later |-> LaterRoute(user_input)]]

\* The handler lines 2368-2392 give the message to
LaterHandler(user_input) ==
    IF Routes[user_input].later # "no phrase" THEN Routes[user_input].later
    ELSE IF conversation_phase = DOMAIN_REFINEMENT THEN "_handle_domain_refinement"
    ELSE "extract_research_topic"

\* process_message for a message that reaches line 2368: named is what
\* extract_research_topic finds in it, papers what find_recent_papers
\* returns and gaps what analyze_research_gaps returns, when they are called
ProcessLaterMessage(user_input, named, papers, gaps) ==
    /\ handler = "none"
    /\ Routes[user_input].first = "later checks"
    /\ LET later == LaterHandler(user_input) IN
       /\ routed' = [user_input |-> user_input, handler |-> later]
       /\ CASE later = "_handle_paper_grading" -> HandlePaperGrading
            [] later = "_handle_paper_search" -> HandlePaperSearch(named, papers)
            [] later = "_handle_gap_analysis" -> HandleGapAnalysis(gaps)
            [] later = "_handle_domain_refinement" -> HandleDomainRefinement
            [] later = "extract_research_topic" -> HandleTopic(named)
    /\ UNCHANGED <<limVars, engVars, aggVars, fnVars>>

\* What extract_research_topic finds in a message
NamedTopics == {NoTopic, TopicA, TopicB}

\* What find_recent_papers and analyze_research_gaps return
ConversationLists == {<<>>, <<PaperP2>>}
ConversationGaps == {<<>>, <<INTERMEDIATE>>}

ConversationNext ==
    \/ \E user_input \in {m \in ConversationMessages : Routes[m].first # "later checks"} :
          ProcessMessage(user_input)
    \/ \E user_input \in ConversationMessages, named \in NamedTopics,
          papers \in ConversationLists, gaps \in ConversationGaps :
            ProcessLaterMessage(user_input, named, papers, gaps)
    \/ GradeOne(NoFault)
    \/ GradingDone

(***************************************************************************)
(* Initial states and specifications                                       *)
(***************************************************************************)

InitLimiter(rl) ==
    /\ rate_limit = rl
    /\ now = Epoch
    /\ last_request_time = InitialLastRequestTime
    /\ lock = NoThread
    /\ pc = [t \in Threads |-> "idle"]
    /\ calls = 0
    /\ loc = [t \in Threads |-> NoLocals]
    /\ hist = [t \in Threads |-> NoHist]
    /\ permits = <<>>

\* A limiter built with an interval of its own, used by concurrent callers.
Init ==
    /\ \E rl \in 2..MaxRateLimit : InitLimiter(rl)
    /\ InitEngine
    /\ InitAggregator
    /\ InitCalls
    /\ InitAnalyzer

\* The engine, whose limiter has the default interval (line 1221).
InitSearch ==
    /\ InitLimiter(SEMANTIC_SCHOLAR_RATE_LIMIT)
    /\ InitEngine
    /\ InitAggregator
    /\ InitCalls
    /\ InitAnalyzer

LimiterStep(t) ==
    \/ Call(t)
    \/ Acquire(t)
    \/ ReadClock(t)
    \/ Sleep(t)
    \/ Wake(t)
    \/ Record(t)
    \/ Unlock(t)

Next ==
    \/ \E t \in Threads : LimiterStep(t)
    \/ Tick

Spec == Init /\ [][Next]_vars

\* The clock always advances, a running thread always takes its next step,
\* and the lock is fair: a thread that finds it free again and again gets it.
\* Whether a caller calls at all is left open.
Fairness ==
    /\ WF_vars(Tick)
    /\ \A t \in Threads :
         /\ SF_vars(Acquire(t))
         /\ WF_vars(ReadClock(t) \/ Sleep(t) \/ Wake(t) \/ Record(t) \/ Unlock(t))

FairSpec == Init /\ [][Next]_vars /\ Fairness

SearchSpec == InitSearch /\ [][EngineNext]_vars

AggregatorSpec == InitSearch /\ [][AggregatorNext]_vars

ValidatorSpec == InitSearch /\ [][ValidatorNext]_vars

ScoreSpec == InitSearch /\ [][ScoreNext]_vars

GradeSpec == InitSearch /\ [][GradeNext]_vars

GradingSpec == InitSearch /\ [][GradingNext]_vars

BackoffSpec == InitSearch /\ [][BackoffNext]_vars

QueriesSpec == InitSearch /\ [][QueriesNext]_vars

RoutingSpec == InitSearch /\ [][RoutingNext]_vars

ResponseSpec == InitSearch /\ [][ResponseNext]_vars

ConversationSpec == InitSearch /\ [][ConversationNext]_vars

(***************************************************************************)
(* Properties of the rate limiter                                          *)
(***************************************************************************)

\* C1: the recorded permit times (the successive values of
\* last_request_time) are pairwise at least rate_limit apart, whatever the
\* interleaving of the concurrent callers.
PermitsSpaced ==
    \A i, j \in 1..Len(permits) :
        i < j => permits[j] - permits[i] >= rate_limit

\* Two permits exactly one interval apart, the second taken by a caller that
\* had to queue for the lock behind the first.
PermitsSpacedWitness ==
    /\ Len(permits) >= 2
    /\ permits[2] - permits[1] = rate_limit
    /\ \E t, u \in Threads : t # u /\ pc[t] = "unlock" /\ pc[u] = "lock"

\* C2: a call that overlaps no other call and is made e ticks after the
\* previous permit returns no earlier than rate_limit - e ticks after it was
\* made when e < rate_limit, and has not slept when e >= rate_limit.
SequentialCallBlocks ==
    \A t \in Threads :
        (pc[t] = "unlock" /\ hist[t].solo) =>
            LET e == hist[t].entry - hist[t].prev IN
            /\ e < rate_limit => now - hist[t].entry >= rate_limit - e
            /\ e >= rate_limit => ~hist[t].slept

\* A second, sequential call made before the interval has passed is about
\* to return after having slept.
SequentialCallBlocksWitness ==
    \E t \in Threads :
        /\ pc[t] = "unlock" /\ hist[t].solo /\ hist[t].slept
        /\ Len(permits) >= 2
        /\ hist[t].entry - hist[t].prev < rate_limit
        /\ hist[t].entry - hist[t].prev > 0

\* C3: the first call to get through a fresh limiter neither sleeps nor
\* sends a wait message to the status callback: whoever is in the waiting
\* branch, or has been through it, comes after a recorded permit.
FirstCallerNotDelayed ==
    \A t \in Threads :
        (pc[t] \in {"sleep", "sleeping", "record"}
            /\ (pc[t] = "sleep" \/ hist[t].slept \/ hist[t].notified))
        => permits # <<>>

\* The first permit has just been recorded by a caller that passed a status
\* callback, has not slept and has not been notified.
FirstCallerNotDelayedWitness ==
    \E t \in Threads :
        /\ pc[t] = "unlock" /\ Len(permits) = 1
        /\ loc[t].cb /\ ~hist[t].slept /\ ~hist[t].notified

\* C4: every wait_if_needed call returns, the lock is always given back,
\* and no sleep is longer than the interval.
EveryCallReturns ==
    /\ \A t \in Threads : InCall(t) ~> ~InCall(t)
    /\ (lock # NoThread) ~> (lock = NoThread)
    /\ [](\A t \in Threads : loc[t].wait_time <= rate_limit)

\* One caller sleeps inside the lock while another one waits for the lock.
EveryCallReturnsWitness ==
    \E t, u \in Threads :
        /\ pc[t] = "sleeping" /\ now < loc[t].wake_at
        /\ pc[u] = "lock"

(***************************************************************************)
(* Properties of the source clients                                        *)
(***************************************************************************)

Count(seq, x) == Cardinality({i \in 1..Len(seq) : seq[i] = x})

\* C5: a search_semantic_scholar call makes at most MAX_RETRIES network
\* requests; a call none of whose requests was answered with a usable
\* response returns the empty list and does not raise; search_crossref never
\* raises.
AtMostMaxRetriesThenEmpty ==
    /\ cur.src = "ss" => Count(events, "request") <= MAX_RETRIES
    /\ (spc = "returned" /\ ~cur.from_cache /\ ~cur.fetched) => result = <<>>
    /\ (spc \in {"raising", "raised"}) => (cur.src = "ss" /\ cur.last \notin Failures)

\* C6: for either source, a 429 met while fewer than MAX_RETRIES requests
\* have been made is followed by a backoff wait, and the search goes on to
\* another request instead of ending.
RateLimitedIsRetried ==
    (cur.last = "429" /\ cur.requests < MAX_RETRIES) =>
        (spc = "attempt" /\ events # <<>> /\ events[Len(events)] = "backoff")

\* C7: a search that finds an entry of its own key younger than
\* CACHE_DURATION returns the list of that entry and makes no request, no
\* limiter acquisition and no backoff; an entry that is CACHE_DURATION old or
\* older is never what the search returns from the cache.
CacheHitServes ==
    searches > 0 =>
        LET fresh == /\ began.entry.present
                     /\ began.time - began.entry.time < Seconds(CACHE_DURATION)
        IN  /\ fresh => /\ spc = "returned"
                        /\ result = began.entry.papers
                        /\ events = <<>>
                        /\ cur.from_cache
            /\ cur.from_cache => fresh

\* A search served from an entry one tick short of CACHE_DURATION.
CacheHitServesWitness ==
    /\ spc = "returned" /\ cur.from_cache /\ result # <<>>
    /\ began.time - began.entry.time = Seconds(CACHE_DURATION) - 1


\* C21: in search_semantic_scholar every network request is preceded, in the
\* same attempt, by a completed wait_if_needed on the client's limiter, the
\* requests made again after a backoff included; search_crossref never goes
\* to the limiter.
RequestsFollowAcquire ==
    /\ cur.src = "ss" =>
          \A i \in 1..Len(events) :
              events[i] = "request" => (i > 1 /\ events[i - 1] = "acquire")
    /\ cur.src = "cr" => Count(events, "acquire") = 0

\* A search_semantic_scholar that has made a request again after a backoff.
RequestsFollowAcquireWitness ==
    /\ cur.src = "ss" /\ Len(events) >= 5
    /\ SubSeq(events, 3, 5) = <<"backoff", "acquire", "request">>
    /\ cur.requests = 2

\* C22: only transient failures (timeout, 429, network error) are retried:
\* when an attempt fails in another way, as with a body that cannot be
\* parsed, the search makes no further request and no backoff wait, and
\* returns the outcome of that attempt.
OnlyTransientIsRetried ==
    cur.last = "other" =>
        /\ spc # "attempt"
        /\ events # <<>> => events[Len(events)] # "backoff"

\* C24: no operation removes an entry from a client's cache: over any
\* sequence of searches the set of keys only grows, a key is added only by a
\* successful fetch of that source, query and limit, and an entry, stale or
\* not, stays as it is until a successful fetch of the same key overwrites
\* it.
CacheOnlyGrows ==
    [][\A k \in Keys :
          /\ cache[k].present => cache'[k].present
          /\ cache'[k] # cache[k] =>
                /\ k = CacheKey(cur'.src, cur'.query, cur'.limit)
                /\ cur'.last = "ok" /\ sent' = sent + 1
                /\ cache'[k] = Entry(now', result')]_vars

\* A search found a stale entry of its key, fetched, and overwrote it; an
\* entry of another key is still stored.
CacheOnlyGrowsWitness ==
    /\ cur.fetched /\ began.entry.present
    /\ ~(began.time - began.entry.time < Seconds(CACHE_DURATION))
    /\ cache[Key].time > began.entry.time
    /\ Cardinality({k \in Keys : cache[k].present}) = 1

\* C27: a search all of whose requests fail leaves the cache as it was: no
\* entry is added, none is overwritten or removed, fresh or stale; only a
\* successful response writes an entry, and it does so even when none of its
\* records passes validation.
FailedSearchLeavesCache ==
    searches > 0 =>
        /\ ~cur.fetched => cache = began.cache
        /\ cur.fetched =>
              /\ cur.last = "ok"
              /\ cache = [began.cache EXCEPT ![Key] = cache[Key]]
              /\ cache[Key].present
              /\ cache[Key].papers = ValidPapers(cur.payload)
              /\ cache[Key].time >= began.time

\* A search_semantic_scholar whose MAX_RETRIES requests all failed, made
\* when a stale entry of its key was stored.
FailedSearchLeavesCacheWitness ==
    /\ spc = "returned" /\ cur.src = "ss" /\ ~cur.fetched
    /\ cur.requests = MAX_RETRIES /\ cur.last \in Failures
    /\ began.entry.present /\ cache[Key] = began.entry
    /\ ~(began.time - began.entry.time < Seconds(CACHE_DURATION))

\* A record the per-record try block turns into a Paper that the validator
\* accepts.
RecordSurvives(i) ==
    /\ ~Catalogue[i].malformed
    /\ validate_paper(MakePaper(i))

\* C11: the list a search returns for a response is exactly the records of
\* the response, in response order, that normalize without error and pass
\* validate_paper; a malformed or rejected record is dropped alone, and never
\* makes the search raise.
ReturnsExactlyTheValidRecords ==
    /\ (spc = "returned" /\ cur.fetched) => result = SelectSeq(cur.payload, RecordSurvives)
    /\ spc \in {"raising", "raised"} => cur.last # "ok"

\* A response with a malformed and a rejected record between two good ones
\* has been answered with the two good ones.
ReturnsExactlyTheValidRecordsWitness ==
    /\ spc = "returned" /\ cur.fetched
    /\ \E k \in 1..Len(cur.payload) : Catalogue[cur.payload[k]].malformed
    /\ \E k \in 1..Len(cur.payload) :
          /\ ~Catalogue[cur.payload[k]].malformed
          /\ ~validate_paper(MakePaper(cur.payload[k]))
    /\ Len(result) = 2
    /\ result[2] = cur.payload[Len(cur.payload)]

\* The other fields of a paper are plausible: year in range, title of 10 to
\* 300 characters, 1 to 50 authors.
OtherwisePlausible(p) ==
    /\ 1900 <= p.year /\ p.year <= CurrentYear
    /\ 10 <= Len(p.title) /\ Len(p.title) <= 300
    /\ 1 <= p.authors /\ p.authors <= 50

\* C12: for a paper with otherwise plausible fields and age A = currentYear -
\* year, validate_paper rejects when citations > A * 1000 and accepts when
\* citations = A * 1000; a current-year paper is accepted with 0 citations
\* and rejected with any positive count.
CitationBoundary ==
    (called = "validate_paper" /\ OtherwisePlausible(args)) =>
        LET A == CurrentYear - args.year IN
        /\ args.citations > A * 1000 => returned = FALSE
        /\ args.citations = A * 1000 => returned = TRUE
        /\ (A = 0 /\ args.citations = 0) => returned = TRUE
        /\ (A = 0 /\ args.citations > 0) => returned = FALSE

\* A two-year-old paper with exactly 2000 citations has been accepted.
CitationBoundaryWitness ==
    /\ called = "validate_paper" /\ OtherwisePlausible(args)
    /\ args.year = CurrentYear - 2
    /\ args.citations = (CurrentYear - args.year) * 1000
    /\ returned = TRUE

(***************************************************************************)
(* The aggregation                                                         *)
(***************************************************************************)

\* Two titles, already normalized, are the same paper: they are equal, or
\* both are longer than 20 characters and one contains the other.
SameNormalizedTitle(a, b) ==
    \/ a = b
    \/ /\ Len(a) > 20 /\ Len(b) > 20
       /\ \E k \in 0..Len(a) : k + Len(b) <= Len(a) /\ SubSeq(a, k + 1, k + Len(b)) = b
    \/ /\ Len(a) > 20 /\ Len(b) > 20
       /\ \E k \in 0..Len(b) : k + Len(a) <= Len(b) /\ SubSeq(b, k + 1, k + Len(a)) = a

NoDuplicateTitles(papers) ==
    \A i, j \in 1..Len(papers) :
        i < j => ~SameNormalizedTitle(Normalized[papers[i].item], Normalized[papers[j].item])

\* Every paper of list has a paper of the same normalized title in into.
Represented(list, into) ==
    \A i \in 1..Len(list) : \E j \in 1..Len(into) :
        SameNormalizedTitle(Normalized[list[i].item], Normalized[into[j].item])

\* C8: in the list find_recent_papers returns, no two papers have the same
\* normalized title (lowercased, punctuation stripped, or one containing the
\* other when both exceed 20 characters), also when the duplicates came from
\* different query variants.
RecentPapersHaveNoDuplicateTitles ==
    apc = "done" => NoDuplicateTitles(out)

\* C9: in the list search_all_sources returns, no two papers have equal
\* normalized titles and no two whose normalized titles are both longer than
\* 20 characters have one title containing the other, whatever source each
\* came from.
AllSourcesHaveNoDuplicateTitles ==
    apc \in {"next", "finish", "done"} => NoDuplicateTitles(sas_out)

\* search_all_sources has returned one paper for a title that Semantic Scholar
\* and Crossref spelt differently, and one for a title and its superset.
AllSourcesHaveNoDuplicateTitlesWitness ==
    /\ apc = "finish"
    /\ \E i \in 1..Len(from_ss) : \E j \in 1..Len(from_cr) :
          /\ PaperTitle[from_ss[i].item] # PaperTitle[from_cr[j].item]
          /\ Normalized[from_ss[i].item] = Normalized[from_cr[j].item]
    /\ \E i \in 1..Len(from_ss) : \E j \in 1..Len(from_cr) :
          /\ Normalized[from_ss[i].item] # Normalized[from_cr[j].item]
          /\ SameNormalizedTitle(Normalized[from_ss[i].item], Normalized[from_cr[j].item])
    /\ Len(sas_out) < Len(from_ss) + Len(from_cr)
    /\ Len(sas_out) = 2

\* C10: in search_all_sources a source that fails (returns nothing or raises)
\* never keeps the other source from being queried nor its papers from being
\* returned; and when both sources failed for every query variant,
\* find_recent_papers returns an empty list.
SourceFailureIsIsolated ==
    /\ apc \in {"rank", "next", "finish", "done"} => asked = <<"ss", "cr">>
    /\ apc \in {"next", "finish", "done"} =>
          /\ from_ss = <<>> => Represented(from_cr, sas_out)
          /\ from_cr = <<>> => Represented(from_ss, sas_out)
    /\ apc = "done" /\ ~found => out = <<>>

\* Semantic Scholar raised, Crossref was still queried and its papers are in
\* what search_all_sources returned.
SourceFailureIsIsolatedWitness ==
    /\ apc = "finish"
    /\ search_errors # <<>>
    /\ from_cr # <<>>
    /\ Len(sas_out) = Len(from_cr)

\* The members of a list
Members(list) == {list[k] : k \in 1..Len(list)}

\* C23: find_recent_papers searches at most 3 query variants, one at a time,
\* and sleeps the inter-query delay of 1.5 s only between two searched
\* variants that follow each other: the delay is never taken after the last
\* variant that is searched, whether 1, 2, 3 or 4 variants were generated.
DelayOnlyBetweenSearched ==
    LET variants_searched == Min(nq, 3) IN
    /\ qi <= 3
    /\ \A k \in 1..Len(paused) :
          /\ paused[k].slept = 15
          /\ paused[k].after < variants_searched - 1
    /\ apc \in {"finish", "done"} => Len(paused) = variants_searched - 1

\* C13: search_all_sources returns its papers in non-increasing
\* relevance_score order, at most MAX_PAPERS_PER_SOURCE (20) of them, and they
\* are the highest-scoring survivors of deduplication: none has a lower score
\* than a deduplicated paper that was cut.
RankedAndCut ==
    apc \in {"next", "finish", "done"} =>
        LET survivors == Deduplicate(all_papers, {}, <<>>) IN
        /\ \A i, j \in 1..Len(sas_out) :
              i < j => RelevanceScore(sas_out[i].item) >= RelevanceScore(sas_out[j].item)
        /\ Len(sas_out) <= 20
        /\ Len(sas_out) = Min(Len(survivors), MAX_PAPERS_PER_SOURCE)
        /\ Members(sas_out) \subseteq Members(survivors)
        /\ \A cut \in Members(survivors) \ Members(sas_out) :
              \A kept \in Members(sas_out) :
                  RelevanceScore(kept.item) >= RelevanceScore(cut.item)

\* More than 20 papers survived deduplication, 20 were returned, and some
\* paper that was cut scores strictly less than some paper returned.
RankedAndCutWitness ==
    /\ apc = "finish"
    /\ Len(Deduplicate(all_papers, {}, <<>>)) > MAX_PAPERS_PER_SOURCE
    /\ Len(sas_out) = MAX_PAPERS_PER_SOURCE
    /\ \E cut \in Members(Deduplicate(all_papers, {}, <<>>)) \ Members(sas_out) :
          \E kept \in Members(sas_out) :
              RelevanceScore(kept.item) > RelevanceScore(cut.item)
    /\ RelevanceScore(sas_out[1].item) > RelevanceScore(sas_out[Len(sas_out)].item)

\* The year and citation count are those of a paper the validator accepts.
ScoredPaperIsValid ==
    /\ 1900 <= args.year /\ args.year <= CurrentYear
    /\ args.citations <= (CurrentYear - args.year) * 1000

\* The score, in thousandths, is the one of the formula
\* 0.4 * max(0, 1 - age / 10) + 0.6 * min(1, (citations + 1) ^ 0.25 / 10).
ScoreFollowsFormula ==
    LET age == CurrentYear - args.year
        recency == IF age >= 10 THEN 0 ELSE 10 - age
    IN  /\ \A r \in 1..10 :
              (r * r * r * r = args.citations + 1) => returned = 40 * recency + 60 * r
        /\ args.citations + 1 >= 10000 => returned = 40 * recency + 600

\* C14, as amended: the relevance_score of a validated paper equals
\* 0.4 * max(0, 1 - age / 10) + 0.6 * min(1, (citations + 1) ^ 0.25 / 10) and
\* lies in [0, 1]; a current-year paper with 0 citations scores 0.46 and a
\* 10-year-old paper with 10000 citations scores 0.6, so the latter ranks
\* first.
RelevanceIsTheFormula ==
    (called = "relevance_score" /\ ScoredPaperIsValid) =>
        /\ ScoreFollowsFormula
        /\ 0 <= returned /\ returned <= 1000
        /\ (args.year = CurrentYear /\ args.citations = 0) => returned = 460
        /\ (args.year = CurrentYear - 10 /\ args.citations = 10000) =>
              (returned = 600 /\ returned > 460)

\* A current-year paper without citations has been scored.
RelevanceIsTheFormulaWitness ==
    /\ called = "relevance_score" /\ ScoredPaperIsValid
    /\ args.year = CurrentYear /\ args.citations = 0
    /\ returned = 460

\* C14, as stated: the same, with a current-year paper with 0 citations
\* scoring 0.406.
RelevanceAsStated ==
    (called = "relevance_score" /\ ScoredPaperIsValid) =>
        /\ ScoreFollowsFormula
        /\ 0 <= returned /\ returned <= 1000
        /\ (args.year = CurrentYear /\ args.citations = 0) => returned = 406
        /\ (args.year = CurrentYear - 10 /\ args.citations = 10000) =>
              (returned = 600 /\ returned > 406)

\* The (year, citations) key of p is at least that of q.
NotOlderNorLessCited(p, q) ==
    \/ Catalogue[p.item].year > Catalogue[q.item].year
    \/ /\ Catalogue[p.item].year = Catalogue[q.item].year
       /\ Catalogue[p.item].citations >= Catalogue[q.item].citations

\* The papers find_recent_papers has gathered that are at most 5 years old.
GatheredRecent == {p \in Members(frp_all) : Catalogue[p.item].year >= CurrentYear - 5}

GradeOfReported(tenths) ==
    IF tenths >= 95 THEN "A+"
    ELSE IF tenths >= 90 THEN "A"
    ELSE IF tenths >= 85 THEN "A-"
    ELSE IF tenths >= 80 THEN "B+"
    ELSE IF tenths >= 70 THEN "B"
    ELSE IF tenths >= 65 THEN "B-"
    ELSE IF tenths >= 60 THEN "C+"
    ELSE IF tenths >= 50 THEN "C"
    ELSE IF tenths >= 40 THEN "C-"
    ELSE IF tenths >= 30 THEN "D"
    ELSE "F"

\* C16: grade_paper_quality reports as overall_score the weighted sum of the
\* five sub-scores (weights 0.25, 0.20, 0.25, 0.15, 0.15) rounded to one
\* decimal, and the overall_grade it reports is the grade of the threshold
\* table for that reported score: a reported 9.0 always carries grade A.
GradeMatchesReportedScore ==
    (called = "grade_paper_quality" /\ args.fault = "none") =>
        LET sum == 25 * returned.methodology_score + 20 * returned.citation_impact_score
                   + 25 * returned.novelty_score + 15 * returned.clarity_score
                   + 15 * returned.applicability_score
        IN  /\ 100 * returned.overall_score - 50 <= sum
            /\ sum <= 100 * returned.overall_score + 50
            /\ returned.overall_grade = GradeOfReported(returned.overall_score)
            /\ returned.overall_score = 90 => returned.overall_grade = "A"

\* The reported sub-score of a factor
FactorScore(score, f) ==
    CASE f = "methodology" -> score.methodology_score
      [] f = "citation_impact" -> score.citation_impact_score
      [] f = "novelty" -> score.novelty_score
      [] f = "clarity" -> score.clarity_score
      [] f = "applicability" -> score.applicability_score

\* C25, as amended: in the assessment grade_paper_quality produces, the
\* strength note of a factor is present exactly when the factor's score is
\* >= 8.0 and its weakness note exactly when the score is < 5.0, for
\* methodology, novelty, clarity and applicability; for the citation impact
\* the strength note is present exactly when the score is >= 7.0 and the
\* weakness note exactly when it is < 4.0.
NotesFollowThresholds ==
    (called = "grade_paper_quality" /\ args.fault = "none") =>
        \A f \in Factors :
            LET x == FactorScore(returned, f) IN
            IF f = "citation_impact"
            THEN /\ f \in returned.strengths <=> x >= 70
                 /\ f \in returned.weaknesses <=> x < 40
            ELSE /\ f \in returned.strengths <=> x >= 80
                 /\ f \in returned.weaknesses <=> x < 50

\* A paper with citation impact 7.0 carries the strength note of that
\* factor, and one whose clarity is below 5.0 the weakness note of clarity.
NotesFollowThresholdsWitness ==
    /\ called = "grade_paper_quality" /\ args.fault = "none"
    /\ returned.citation_impact_score = 70
    /\ "citation_impact" \in returned.strengths
    /\ returned.clarity_score < 50
    /\ "clarity" \in returned.weaknesses

\* C25, as stated: for each of the five factors the strength note is present
\* exactly when the factor's score is >= 8.0 and the weakness note exactly
\* when it is < 5.0.
NotesFollowUniformThresholds ==
    (called = "grade_paper_quality" /\ args.fault = "none") =>
        \A f \in Factors :
            /\ f \in returned.strengths <=> FactorScore(returned, f) >= 80
            /\ f \in returned.weaknesses <=> FactorScore(returned, f) < 50

\* The provider generate_response turns to first
SelectedProvider ==
    IF args.provider # NoProvider THEN args.provider ELSE args.current_provider

\* C26: when the provider selected for generate_response fails (its API call
\* raises) and other providers are configured, generate_response goes on to
\* try each other provider in turn and returns the first valid provider
\* response; the fallback text is returned only after every configured
\* provider has been tried and has failed.
FailoverTriesEveryProvider ==
    ( /\ called = "generate_response"
      /\ SelectedProvider \in args.providers
      /\ args.outcome[SelectedProvider] = "raise"
      /\ args.providers # {SelectedProvider} ) =>
        /\ (\E q \in args.providers : args.outcome[q] = "valid") =>
               /\ returned.response.by \in args.providers
               /\ args.outcome[returned.response.by] = "valid"
               /\ \A i \in 1..(Len(returned.tried) - 1) :
                     args.outcome[returned.tried[i]] # "valid"
        /\ returned.response = FallbackResponse =>
               /\ \A q \in args.providers :
                     /\ \E i \in 1..Len(returned.tried) : returned.tried[i] = q
                     /\ args.outcome[q] # "valid"

\* C17: grade_paper_quality never raises: when a sub-score computation or the
\* assessment step throws it returns the neutral default (grade C, overall
\* score and all five sub-scores 5.0, an explanatory message), and the callers
\* that store the result in paper_scores go on with the remaining papers.
GradingNeverRaises ==
    /\ response # "raised"
    /\ \A k \in 1..Len(graded_papers) :
          LET g == graded_papers[k] IN
          /\ g.fault # "none" =>
                /\ g.score.overall_grade = "C"
                /\ g.score.overall_score = 50
                /\ g.score.methodology_score = 50
                /\ g.score.citation_impact_score = 50
                /\ g.score.novelty_score = 50
                /\ g.score.clarity_score = 50
                /\ g.score.applicability_score = 50
                /\ g.score.explanation = "unable to assess"
          /\ g.paper_id \in DOMAIN paper_scores
    /\ response = "graded" =>
          /\ Len(graded_papers) = Len(recent_papers)
          /\ \A k \in 1..Len(recent_papers) :
                recent_papers[k].paper_id \in DOMAIN paper_scores

\* A handler has graded three papers: the first threw and has the default,
\* the last was assessed.
GradingNeverRaisesWitness ==
    /\ response = "graded"
    /\ Len(graded_papers) = 3
    /\ graded_papers[1].fault # "none"
    /\ graded_papers[1].score.explanation = "unable to assess"
    /\ graded_papers[3].fault = "none"
    /\ graded_papers[3].score.explanation = "assessed"
    /\ paper_scores["p3"].explanation = "assessed"

\* C18: the backoff wait after failed attempt k (k = 0, 1, 2) is
\* RETRY_BACKOFF_BASE ^ k seconds, that is 1, 2 and 4 seconds with base 2, and
\* exponential_backoff_wait(k) sleeps exactly that long, after it has told the
\* status callback.
BackoffIsExponential ==
    called = "exponential_backoff_wait" =>
        /\ args.attempt = 0 => now - args.at = 10
        /\ args.attempt = 1 => now - args.at = 20
        /\ args.attempt = 2 => now - args.at = 40
        /\ now - args.at = 10 * RETRY_BACKOFF_BASE ^ args.attempt
        /\ returned[Len(returned)] = "sleep"
        /\ args.status_callback => returned = <<"notify", "sleep">>

\* A call for attempt 2 with a status callback has told it and slept 4 s.
BackoffIsExponentialWitness ==
    /\ called = "exponential_backoff_wait"
    /\ args.attempt = 2 /\ args.status_callback
    /\ returned = <<"notify", "sleep">>
    /\ now - args.at = 40

\* Two queries are the same when they are equal without case, trimmed.
SameQuery(a, b) == Strip(Lower(a)) = Strip(Lower(b))

\* The first place of a query in a list.
FirstAt(list, q) == CHOOSE k \in 1..Len(list) :
    list[k] = q /\ \A m \in 1..(k - 1) : list[m] # q

\* C19: _generate_search_queries returns between 1 and 4 queries, the first
\* of them the topic itself, no two of them equal when compared without case
\* and trimmed, in the order they were generated; with no LLM provider and a
\* topic of at most 3 words it returns exactly the topic, then the topic
\* followed by " recent advances", " systematic review" and " survey".
QueriesAsSpecified ==
    called = "_generate_search_queries" =>
        LET r == returned.result
            g == returned.queries
        IN  /\ Len(r) >= 1 /\ Len(r) <= 4
            /\ r[1] = args.topic
            /\ \A i, j \in 1..Len(r) : i < j => ~SameQuery(r[i], r[j])
            /\ \A i \in 1..Len(r) : \E k \in 1..Len(g) : g[k] = r[i]
            /\ \A i, j \in 1..Len(r) : i < j => FirstAt(g, r[i]) < FirstAt(g, r[j])
            /\ (~args.providers /\ WordCount(args.topic) <= 3) =>
                   r = << args.topic,
                          args.topic \o RecentAdvances,
                          args.topic \o SystematicReview,
                          args.topic \o Survey >>

\* A long topic, for which the model proposed queries that differ only in
\* case and surrounding spaces: fewer are returned than were generated.
QueriesAsSpecifiedWitness ==
    /\ called = "_generate_search_queries"
    /\ args.providers /\ WordCount(args.topic) > 3
    /\ Len(returned.queries) = 4
    /\ Len(returned.result) = 2
    /\ \E i, j \in 1..4 : i < j /\ returned.queries[i] # returned.queries[j]
                              /\ SameQuery(returned.queries[i], returned.queries[j])

\* The requests of the three kinds
AsksForMoreGradedPapers == Contains(routed.user_input, ShowMoreGradedPapers)
AsksForMorePapers == Contains(routed.user_input, ShowMorePapers)
AsksForMoreGaps == Contains(routed.user_input, ShowMoreGaps)

\* C20: process_message gives each "show more" request to its own handler: a
\* message containing "show more graded papers" to
\* _handle_show_more_graded_papers, "show more papers" to
\* _handle_show_more_papers and "show more gaps" to _handle_show_more_gaps,
\* and each returns a response without raising, whether or not papers, gaps
\* or scores are loaded.
ShowMoreIsRoutedAndAnswered ==
    routed # NoRoute =>
        /\ AsksForMoreGradedPapers =>
               routed.handler = "_handle_show_more_graded_papers"
        /\ AsksForMorePapers => routed.handler = "_handle_show_more_papers"
        /\ AsksForMoreGaps => routed.handler = "_handle_show_more_gaps"
        /\ response # "raised"

(***************************************************************************)
(* Properties of the conversation                                          *)
(***************************************************************************)

\* The phases in which papers are analysed
PhasesOnPapers == {PAPER_ANALYSIS, GAP_ANALYSIS, RECOMMENDATION_REVIEW}

\* The step is a grading or gap-analysis request made between two messages
\* with no papers loaded
RequestWithoutPapers ==
    /\ handler = "none"
    /\ recent_papers = <<>>
    /\ routed' # NoRoute
    /\ routed'.handler \in {"_handle_paper_grading", "_handle_gap_analysis"}

\* C28: after any sequence of process_message calls on a fresh
\* ResearchGapAnalyzer, whenever conversation_phase is PAPER_ANALYSIS,
\* GAP_ANALYSIS or RECOMMENDATION_REVIEW recent_papers is not empty, and a
\* grading or gap-analysis request made with no papers loaded leaves
\* conversation_phase, paper_scores and identified_gaps unchanged.
PhaseNeedsPapers ==
    /\ [](conversation_phase \in PhasesOnPapers => recent_papers # <<>>)
    /\ [][RequestWithoutPapers =>
              UNCHANGED <<conversation_phase, paper_scores, identified_gaps>>]_vars

\* Papers were found and graded, a later search found none, and grading was
\* asked for then: the scores are still there and the phase is that of the
\* search.
PhaseNeedsPapersWitness ==
    /\ routed.handler = "_handle_paper_grading"
    /\ handler = "none"
    /\ recent_papers = <<>>
    /\ response = "search first"
    /\ DOMAIN paper_scores # {}
    /\ conversation_phase = LITERATURE_REVIEW

\* The step is a paper-search message given to _handle_paper_search
PaperSearchMessage ==
    /\ handler = "none"
    /\ routed' # NoRoute
    /\ routed'.handler = "_handle_paper_search"

\* C29: once current_topic is set, every paper-search message searches for
\* current_topic and leaves current_topic unchanged, whatever topic the
\* message itself names; the topic of the message is used only when no
\* current_topic is set.
SearchKeepsCurrentTopic ==
    /\ [][(PaperSearchMessage /\ current_topic # NoTopic) =>
              /\ current_topic' = current_topic
              /\ searched'.topic = current_topic]_vars
    /\ [](searched.topic # searched.had => searched.had = NoTopic)
    /\ [](searched.topic \in {searched.had, searched.named})

\* A paper-search message that names another topic than the current one:
\* the current one was searched and is still the current one.
SearchKeepsCurrentTopicWitness ==
    /\ routed.handler = "_handle_paper_search"
    /\ searched.had = TopicA
    /\ searched.named = TopicB
    /\ searched.topic = TopicA
    /\ current_topic = TopicA

\* The step is a paper search that finds no papers
SearchFindsNone ==
    /\ PaperSearchMessage
    /\ searched' # NoTopicSearch
    /\ response' = "no papers found"

\* C30: when a paper search finds no papers, recent_papers is replaced by
\* the empty list and conversation_phase is LITERATURE_REVIEW, while
\* paper_scores and identified_gaps of earlier searches are left unchanged;
\* no operation ever removes a score from paper_scores.
EmptySearchDiscardsPapers ==
    /\ [][SearchFindsNone =>
              /\ recent_papers' = <<>>
              /\ conversation_phase' = LITERATURE_REVIEW
              /\ UNCHANGED <<paper_scores, identified_gaps>>]_vars
    /\ [][DOMAIN paper_scores \subseteq DOMAIN paper_scores']_vars

\* Papers were found and graded and their gaps analysed; the next search
\* found nothing: the papers are gone, the scores and the gaps are not.
EmptySearchDiscardsPapersWitness ==
    /\ routed.handler = "_handle_paper_search"
    /\ response = "no papers found"
    /\ recent_papers = <<>>
    /\ conversation_phase = LITERATURE_REVIEW
    /\ DOMAIN paper_scores # {}
    /\ identified_gaps # <<>>

====
